---- MODULE Spec2Model ----
(***************************************************************************)
(* Model of the job-analyzer ingestion pipeline.                           *)
(*                                                                         *)
(* Part 1: src/app2.py, the Flask work queue.  One worker thread           *)
(* (queue_processor) and the request threads of the threaded Flask server  *)
(* (upload_file, get_status, clear_queue) share app_state and state_lock.  *)
(* queue.Queue operations are atomic by themselves and are NOT covered by  *)
(* state_lock unless the code calls them inside a with-block.              *)
(*                                                                         *)
(* Python dicts are shared by reference: the dict appended to              *)
(* app_state['files'] is the dict put on the queue.  The model keeps the   *)
(* dicts in the heap `rec`, addressed by the item id; files, queue,        *)
(* file_data and current_file hold ids.  process_file looks its entry up   *)
(* by id in app_state['files'].                                            *)
(***************************************************************************)
EXTENDS Integers, Sequences, FiniteSets, TLC

\* ---------------------------------------------------------------- bounds
MaxItems == 2      \* number of accepted uploads in one run
MaxRand == 1       \* os.urandom(4) ranges over 0..MaxRand

Producers == {"p1", "p2"}          \* request threads of the Flask server
Worker == "worker"

\* ---------------------------------------------------------------- values
NoId == <<>>                       \* Python None where an item is expected
None == "None"

\* int(time.time() * 1000): all uploads of a run fall into one millisecond,
\* the case in which only the random suffix tells two ids apart.
MsVals == {0}
RandVals == 0..MaxRand

\* A mutation of get_file_id: the random suffix is dropped.
get_file_id_NoRandom(ms, rnd) == <<ms, 0>>

\* f"{int(time.time() * 1000)}_{os.urandom(4).hex()}": the decimal clock
\* reading, '_', eight hex digits; the string determines both parts.
get_file_id(ms, rnd) == <<ms, rnd>>

IdSpace == {get_file_id(ms, rnd) : ms \in MsVals, rnd \in RandVals}

FileTypes == {"image", "text"}

\* allowed_file: the upload's extension class -> (is_allowed, file_type)
allowed_file(ext) ==
    IF ext \in FileTypes THEN [ok |-> TRUE, type |-> ext]
                         ELSE [ok |-> FALSE, type |-> None]

Extensions == {"image", "text", "other"}

\* ------------------------------------------------------- analyzer results
\* What the model answered (after parse_json_response and the .get calls).
Responses == {"job", "not_job", "unparsable", "non_dict"}

\* datos: es = value of datos.get('es_anuncio_empleo', False) as a truth
\* value, stored = the persistence steps that ran.
Datos(es, stored) == [es |-> es, stored |-> stored]
Returned(d) == [raised |-> FALSE, datos |-> d, msg |-> None]
Raised(m) == [raised |-> TRUE, datos |-> Datos("False", "none"), msg |-> m]

\* A mutation of process_job_image: a failed Firestore write is swallowed and
\* the record comes back with the url only.
process_job_image_Partial(convert_ok, response, storage_ok, firestore_ok) ==
    IF ~convert_ok THEN Raised("cannot identify image file")
    ELSE IF response = "non_dict" THEN Raised("object has no attribute get")
    ELSE IF response = "not_job" THEN Returned(Datos("False", "none"))
    ELSE IF response = "unparsable" THEN Returned(Datos("False", "sentinel"))
    ELSE IF ~storage_ok THEN Raised("storage upload failed")
    ELSE IF ~firestore_ok THEN Returned(Datos("True", "url"))
    ELSE Returned(Datos("True", "url+doc"))

\* JobAnalyzerFirebase.process_job_image, once the inference call returned
process_job_image(convert_ok, response, storage_ok, firestore_ok) ==
    IF ~convert_ok THEN Raised("cannot identify image file")
    ELSE IF response = "non_dict" THEN Raised("object has no attribute get")
    ELSE IF response = "not_job" THEN Returned(Datos("False", "none"))
    ELSE IF response = "unparsable" THEN Returned(Datos("False", "sentinel"))
    ELSE IF ~storage_ok THEN Raised("storage upload failed")
    ELSE IF ~firestore_ok THEN Raised("firestore write failed")
    ELSE Returned(Datos("True", "url+doc"))

\* A mutation of process_job_text: an unparsable answer is raised as an error.
process_job_text_SentinelRaises(read_ok, response, firestore_ok) ==
    IF ~read_ok THEN Raised("cannot read file")
    ELSE IF response = "non_dict" THEN Raised("object has no attribute get")
    ELSE IF response = "not_job" THEN Returned(Datos("False", "none"))
    ELSE IF response = "unparsable" THEN Raised("unparsable response")
    ELSE IF ~firestore_ok THEN Raised("firestore write failed")
    ELSE Returned(Datos("True", "doc"))

\* read_text_file followed by JobAnalyzerFirebase.process_job_text
process_job_text(read_ok, response, firestore_ok) ==
    IF ~read_ok THEN Raised("cannot read file")
    ELSE IF response = "non_dict" THEN Raised("object has no attribute get")
    ELSE IF response = "not_job" THEN Returned(Datos("False", "none"))
    ELSE IF response = "unparsable" THEN Returned(Datos("False", "sentinel"))
    ELSE IF ~firestore_ok THEN Raised("firestore write failed")
    ELSE Returned(Datos("True", "doc"))

\* The outcomes of the try-body of process_file for an item of this type
CallOutcomes(type) ==
    IF type = "image"
    THEN {process_job_image(c, r, s, f) :
             c \in BOOLEAN, r \in Responses, s \in BOOLEAN, f \in BOOLEAN}
    ELSE {process_job_text(c, r, f) :
             c \in BOOLEAN, r \in Responses, f \in BOOLEAN}

NoOutcome == [raised |-> FALSE, datos |-> Datos("False", "none"), msg |-> "pending"]

\* ------------------------------------------------------------- item dicts
NoDatos == Datos("None", "none")

\* file_data as built by upload_file
NewFileData(type) ==
    [type |-> type, status |-> "queued", result |-> NoDatos,
     error |-> None, is_job |-> None]

NoRec == [type |-> None, status |-> "absent", result |-> NoDatos,
          error |-> None, is_job |-> None]

ZeroStats == [total |-> 0, procesados |-> 0, exitosos |-> 0,
              fallidos |-> 0, no_anuncios |-> 0]

VARIABLES
    files,          \* app_state['files']: ids of the listed dicts, in order
    rec,            \* the heap of item dicts, by id
    queue,          \* app_state['queue']
    processing,     \* app_state['processing']
    current_file,   \* app_state['current_file']
    stats,          \* app_state['stats']
    lock,           \* holder of state_lock, or "free"
    wpc,            \* position of the worker thread
    file_data,      \* the worker's local file_data
    wout,           \* what the try-body of process_file produced
    ppc,            \* position of each request thread
    plocal,         \* the file_data of a request thread inside upload_file
    drawn,          \* (history) clock/random pairs get_file_id was called on
    issued,         \* (history) ids returned by get_file_id, in call order
    putOrder,       \* (history) ids in the order of queue.put
    deqOrder,       \* (history) ids in the order of the worker's queue.get
    doneOrder       \* (history) ids in the order process_file finished them

\* the variables of app2.py
appvars == <<files, rec, queue, processing, current_file, stats, lock, wpc,
             file_data, wout, ppc, plocal, drawn, issued, putOrder, deqOrder, doneOrder>>

\* Part 2: one BatchMultiFormatProcessor object (src/batch_image_processor.py)
VARIABLES
    bqueue,         \* self.queue: the file_info dicts, by their type
    bstats,         \* self.stats
    results,        \* self.results
    is_processing,  \* self.is_processing
    is_paused,      \* self.is_paused
    block,          \* holder of self.lock, or "free"
    bpc,            \* position of each thread running process_queue
    file_info,      \* the local file_info of each of them
    cpc,            \* position of the thread calling add_file / pause / ...
    bacc            \* (history) the latest access to shared state

batchvars == <<bqueue, bstats, results, is_processing, is_paused, block, bpc,
               file_info, cpc, bacc>>

MaxBatch == 2      \* items added and not cleared away

\* the threads that call process_queue
Runners == {"r1", "r2"}
Caller == "caller"

ZeroBatchStats == [total |-> 0, procesados |-> 0, exitosos |-> 0, fallidos |-> 0,
                   no_anuncios |-> 0, en_cola |-> 0, imagenes |-> 0, textos |-> 0]

NoInfo == "None"

\* (history) thread `by` touched `field` while `holder` had self.lock
NoAccess == [by |-> "nobody", field |-> "none", holder |-> "nobody"]
Access(by, field) == [by |-> by, field |-> field, holder |-> block]

\* __init__
BatchInit ==
    /\ bqueue = <<>>
    /\ bstats = ZeroBatchStats
    /\ results = <<>>
    /\ is_processing = FALSE
    /\ is_paused = FALSE
    /\ block = "free"
    /\ bpc = [r \in Runners |-> "idle"]
    /\ file_info = [r \in Runners |-> NoInfo]
    /\ cpc = "idle"
    /\ bacc = NoAccess

\* Part 3: one call of OllamaAnalyzer.analyze_image / analyze_text
\* (src/components/ollama_analyzer.py); the two retry loops are the same.
VARIABLES
    max_retries,    \* the max_retries argument: Unlimited (None) or a number
    backend,        \* what the service does on the 1st, 2nd, ... request
    intento,        \* the attempt counter of the loop
    apc,            \* position of the call
    last_error,     \* the exception e caught by the latest except block
    raised_exc,     \* the exception that left the call
    returned,       \* the value the call returned
    posts,          \* (history) requests.post calls made
    sleeps          \* (history) time.sleep(retry_delay) calls made

retryvars == <<max_retries, backend, intento, apc, last_error, raised_exc,
               returned, posts, sleeps>>

\* max_retries=None, "Reintentos infinitos"
Unlimited == -1

NoError == [type |-> None, msg |-> None]
NoExc == [text |-> <<>>, n |-> 0, context |-> NoError]

\* no call of analyze_image / analyze_text is in progress
RetryOff ==
    /\ max_retries = Unlimited
    /\ backend = [script |-> <<>>, tail |-> "ok"]
    /\ intento = 0
    /\ apc = "off"
    /\ last_error = NoError
    /\ raised_exc = NoExc
    /\ returned = None
    /\ posts = 0
    /\ sleeps = 0

\* Part 4: one call of OllamaAnalyzer.parse_json_response
VARIABLES
    content,        \* the argument: the text of the model's answer
    parsed,         \* what the call returned
    jpc             \* position of the call

parsevars == <<content, parsed, jpc>>

NoParsed == [kind |-> None, val |-> <<>>, original |-> <<>>]

\* no call of parse_json_response is in progress
ParseOff ==
    /\ content = <<>>
    /\ parsed = NoParsed
    /\ jpc = "off"

\* Part 5: one call of JobAnalyzerFirebase.process_job_image / _text
VARIABLES
    call,           \* the arguments, and what the outside world will do
    qpc,            \* position of the call
    jdatos,         \* datos: the dict the call builds and returns
    blobs,          \* objects in the Storage bucket
    docs,           \* documents in the Firestore collection
    steps           \* the calls made so far, in order

pipevars == <<call, qpc, jdatos, blobs, docs, steps>>

\* a dict by the fields it holds
NoDict == [kind |-> None, es |-> "absent", razon |-> FALSE, job |-> "none",
           sentinel |-> FALSE, url |-> FALSE, firestoreDocId |-> FALSE]

NoCall == [via |-> None, kind |-> None, image_path |-> None, text |-> None,
           read_ok |-> TRUE,
           upload_to_storage |-> TRUE, upload_to_firestore |-> TRUE,
           convert_ok |-> TRUE, reply |-> None, storage |-> "ok",
           firestore_ok |-> TRUE]

\* no call of process_job_image / process_job_text is in progress
PipeOff ==
    /\ call = NoCall
    /\ qpc = "off"
    /\ jdatos = NoDict
    /\ blobs = 0
    /\ docs = {}
    /\ steps = <<>>

\* Part 7: one call of ImageConverter.convert_to_webp
VARIABLES
    image_data,     \* the argument: how it is given, and the file behind it
    img,            \* the PIL image the function holds
    kpc,            \* position of the call
    encoded         \* the mode of the image handed to img.save(format='WEBP')

convvars == <<image_data, img, kpc, encoded>>

NoImageData == [given |-> None, mode |-> None, valid |-> FALSE]

NoImg == [mode |-> None]

\* no call of convert_to_webp is in progress
ConvOff ==
    /\ image_data = NoImageData
    /\ img = NoImg
    /\ kpc = "off"
    /\ encoded = None

\* Part 10: the Firestore collection behind FirebaseManager.upload_to_firestore
VARIABLES
    fstore,         \* the collection: one [id, data] per document
    clock,          \* datetime.now(), in half seconds
    uploads         \* the calls made so far: argument, time, returned id

firevars == <<fstore, clock, uploads>>

\* no call of upload_to_firestore is looked at
FireOff ==
    /\ fstore = {}
    /\ clock = 0
    /\ uploads = <<>>

\* the machines of Part 7 and later
latervars == <<convvars, firevars>>

LaterOff == ConvOff /\ FireOff

\* everything outside app2.py
xvars == <<batchvars, retryvars, parsevars, pipevars, latervars>>

vars == <<appvars, xvars>>

qvars == <<drawn, issued, putOrder, deqOrder, doneOrder>>

\* --------------------------------------------------------------- helpers
Range(s) == {s[i] : i \in 1..Len(s)}

SelectIds(s, statuses) == SelectSeq(s, LAMBDA i : rec[i].status \in statuses)

\* Dicts no reference reaches are gone (garbage collection).
Collect(r, f, q, fd, cf, pl) ==
    [i \in IdSpace |->
        IF i \in Range(f) \cup Range(q) \cup {fd, cf} \cup {pl[p] : p \in Producers}
        THEN r[i] ELSE NoRec]

Init ==
    /\ files = <<>>
    /\ rec = [i \in IdSpace |-> NoRec]
    /\ queue = <<>>
    /\ processing = FALSE
    /\ current_file = NoId
    /\ stats = ZeroStats
    /\ lock = "free"
    /\ wpc = "get"
    /\ file_data = NoId
    /\ wout = NoOutcome
    /\ ppc = [p \in Producers |-> "idle"]
    /\ plocal = [p \in Producers |-> NoId]
    /\ drawn = {}
    /\ issued = <<>>
    /\ putOrder = <<>>
    /\ deqOrder = <<>>
    /\ doneOrder = <<>>

\* ------------------------------------------------------ entry updates
\* process_file, first with-block: f['status'] = 'processing'
MarkProcessing(r) == [r EXCEPT !.status = "processing"]

\* Mutations of MarkCompleted: the result is not attached / the status is
\* left as it was.
MarkCompleted_NoResult(r, datos) ==
    [r EXCEPT !.status = "completed", !.is_job = datos.es]

MarkCompleted_KeepsStatus(r, datos) ==
    [r EXCEPT !.result = datos, !.is_job = datos.es]

\* process_file, success block: status, result, is_job
MarkCompleted(r, datos) ==
    [r EXCEPT !.status = "completed", !.result = datos, !.is_job = datos.es]

\* A mutation of MarkError: a failed item goes back to 'queued'.
MarkError_Requeue(r, msg) == [r EXCEPT !.status = "queued", !.error = msg]

\* process_file, except block: status, error = str(e)
MarkError(r, msg) == [r EXCEPT !.status = "error", !.error = msg]

\* "for f in app_state['files']: if f['id'] == file_id: ...; break"
UpdateListed(id, new) ==
    IF id \in Range(files) THEN [rec EXCEPT ![id] = new] ELSE rec

\* stats after a successful item
StatsCompleted(st, datos) ==
    IF datos.es = "True"
    THEN [st EXCEPT !.procesados = @ + 1, !.exitosos = @ + 1]
    ELSE [st EXCEPT !.procesados = @ + 1, !.no_anuncios = @ + 1]

\* A mutation of StatsError: fallidos is not counted.
StatsError_NoFallidos(st) == [st EXCEPT !.procesados = @ + 1]

\* stats after a failed item
StatsError(st) == [st EXCEPT !.procesados = @ + 1, !.fallidos = @ + 1]

\* A mutation of QueueGet: the newest element is taken (a stack).
QueueGet_Newest(q) == [item |-> q[Len(q)], rest |-> SubSeq(q, 1, Len(q) - 1)]

\* queue.Queue.get on a non-empty queue: the oldest element
QueueGet(q) == [item |-> Head(q), rest |-> Tail(q)]

\* =============================================================== worker
\* queue_processor: file_data = app_state['queue'].get(timeout=1)
WorkerGet ==
    /\ wpc = "get"
    /\ queue # <<>>
    /\ file_data' = QueueGet(queue).item
    /\ queue' = QueueGet(queue).rest
    /\ deqOrder' = Append(deqOrder, QueueGet(queue).item)
    /\ wpc' = "flag_lock"
    /\ UNCHANGED xvars
    /\ UNCHANGED <<files, rec, processing, current_file, stats, lock, wout,
                   ppc, plocal, drawn, issued, putOrder, doneOrder>>

\* queue.get times out on an empty queue: queue.Empty reaches the except
WorkerGetTimeout ==
    /\ wpc = "get"
    /\ queue = <<>>
    /\ wpc' = "backoff"
    /\ UNCHANGED xvars
    /\ UNCHANGED <<files, rec, queue, processing, current_file, stats, lock,
                   file_data, wout, ppc, plocal, qvars>>

\* A mutation of the except block: the timeout ends the worker thread.
AfterBackoff_Exit == "exit"

\* while True: after the except block the loop is back at queue.get
AfterBackoff == "get"

\* except Exception: time.sleep(0.1), next iteration of while True
WorkerBackoff ==
    /\ wpc = "backoff"
    /\ wpc' = AfterBackoff
    /\ UNCHANGED xvars
    /\ UNCHANGED <<files, rec, queue, processing, current_file, stats, lock,
                   file_data, wout, ppc, plocal, qvars>>

\* the state the worker is in once it holds the lock it waited for
AfterAcquire(pc) ==
    CASE pc = "flag_lock" -> "flag_set"
      [] pc = "pf_lock"   -> "pf_mark"
      [] pc = "ok_lock"   -> "ok_set"
      [] pc = "err_lock"  -> "err_set"
      [] pc = "end_lock"  -> "end_set"

\* "with state_lock:" entered by the worker (any of its five blocks)
WorkerAcquire ==
    /\ wpc \in {"flag_lock", "pf_lock", "ok_lock", "err_lock", "end_lock"}
    /\ lock = "free"
    /\ lock' = Worker
    /\ wpc' = AfterAcquire(wpc)
    /\ UNCHANGED xvars
    /\ UNCHANGED <<files, rec, queue, processing, current_file, stats,
                   file_data, wout, ppc, plocal, qvars>>

\* queue_processor: with state_lock: app_state['processing'] = True
WorkerSetFlag ==
    /\ wpc = "flag_set"
    /\ processing' = TRUE
    /\ lock' = "free"
    /\ wpc' = "pf_lock"
    /\ UNCHANGED xvars
    /\ UNCHANGED <<files, rec, queue, current_file, stats, file_data, wout,
                   ppc, plocal, qvars>>

\* A mutation of LockAfterMark: the analyzer call sits inside the with-block.
LockAfterMark_Held == Worker

\* the lock once the first with-block of process_file is left
LockAfterMark == "free"

\* process_file: mark the listed entry 'processing', set current_file
WorkerMarkProcessing ==
    /\ wpc = "pf_mark"
    /\ rec' = UpdateListed(file_data, MarkProcessing(rec[file_data]))
    /\ current_file' = file_data
    /\ lock' = LockAfterMark
    /\ wpc' = "pf_call"
    /\ UNCHANGED xvars
    /\ UNCHANGED <<files, queue, processing, stats, file_data, wout,
                   ppc, plocal, qvars>>

\* inside analyze_image / analyze_text (max_retries=None): a failed attempt
WorkerAttemptFails ==
    /\ wpc = "pf_call"
    /\ wpc' = "pf_retry"
    /\ UNCHANGED xvars
    /\ UNCHANGED <<files, rec, queue, processing, current_file, stats, lock,
                   file_data, wout, ppc, plocal, qvars>>

\* time.sleep(retry_delay), then the next attempt
WorkerRetry ==
    /\ wpc = "pf_retry"
    /\ wpc' = "pf_call"
    /\ UNCHANGED xvars
    /\ UNCHANGED <<files, rec, queue, processing, current_file, stats, lock,
                   file_data, wout, ppc, plocal, qvars>>

\* the try-body of process_file returns datos
WorkerCallReturns ==
    /\ wpc = "pf_call"
    /\ \E o \in CallOutcomes(rec[file_data].type) :
          /\ ~o.raised
          /\ wout' = o
    /\ wpc' = "ok_lock"
    /\ UNCHANGED xvars
    /\ UNCHANGED <<files, rec, queue, processing, current_file, stats, lock,
                   file_data, ppc, plocal, qvars>>

\* the try-body of process_file raises: control goes to except Exception
WorkerCallRaises ==
    /\ wpc = "pf_call"
    /\ \E o \in CallOutcomes(rec[file_data].type) :
          /\ o.raised
          /\ wout' = o
    /\ wpc' = "err_lock"
    /\ UNCHANGED xvars
    /\ UNCHANGED <<files, rec, queue, processing, current_file, stats, lock,
                   file_data, ppc, plocal, qvars>>

\* process_file, success block; back in queue_processor, time.sleep(1)
WorkerSetCompleted ==
    /\ wpc = "ok_set"
    /\ rec' = UpdateListed(file_data, MarkCompleted(rec[file_data], wout.datos))
    /\ stats' = StatsCompleted(stats, wout.datos)
    /\ wout' = NoOutcome
    /\ doneOrder' = Append(doneOrder, file_data)
    /\ lock' = "free"
    /\ wpc' = "end_lock"
    /\ UNCHANGED xvars
    /\ UNCHANGED <<files, queue, processing, current_file, file_data,
                   ppc, plocal,
                   drawn, issued, putOrder, deqOrder>>

\* process_file, except block; back in queue_processor, time.sleep(1)
WorkerSetError ==
    /\ wpc = "err_set"
    /\ rec' = UpdateListed(file_data, MarkError(rec[file_data], wout.msg))
    /\ stats' = StatsError(stats)
    /\ wout' = NoOutcome
    /\ doneOrder' = Append(doneOrder, file_data)
    /\ lock' = "free"
    /\ wpc' = "end_lock"
    /\ UNCHANGED xvars
    /\ UNCHANGED <<files, queue, processing, current_file, file_data,
                   ppc, plocal,
                   drawn, issued, putOrder, deqOrder>>

\* queue_processor, last with-block: current_file = None, flag off if empty
WorkerEndIteration ==
    /\ wpc = "end_set"
    /\ current_file' = NoId
    /\ processing' = IF queue = <<>> THEN FALSE ELSE processing
    /\ file_data' = NoId
    /\ rec' = Collect(rec, files, queue, NoId, NoId, plocal)
    /\ lock' = "free"
    /\ wpc' = "get"
    /\ UNCHANGED xvars
    /\ UNCHANGED <<files, queue, stats, wout, ppc, plocal, qvars>>

WorkerStep ==
    \/ WorkerGet \/ WorkerGetTimeout \/ WorkerBackoff \/ WorkerAcquire
    \/ WorkerSetFlag \/ WorkerMarkProcessing \/ WorkerAttemptFails
    \/ WorkerRetry \/ WorkerCallReturns \/ WorkerCallRaises
    \/ WorkerSetCompleted \/ WorkerSetError \/ WorkerEndIteration

\* ====================================================== request threads
\* upload_file: no file part, empty filename or extension not allowed -> 400
UploadRejected(p) ==
    /\ ppc[p] = "idle"
    /\ \E ext \in Extensions : ~allowed_file(ext).ok
    /\ UNCHANGED vars

\* upload_file up to the end of its with-block: get_file_id, file_data,
\* append to the list, total += 1.  The entropy source does not hand out the
\* same four bytes twice within one clock reading.
UploadAppend(p) ==
    /\ ppc[p] = "idle"
    /\ lock = "free"
    /\ Len(issued) < MaxItems
    /\ \E ext \in Extensions, ms \in MsVals, rnd \in RandVals :
          /\ allowed_file(ext).ok
          /\ <<ms, rnd>> \notin drawn
          /\ LET id == get_file_id(ms, rnd) IN
                /\ drawn' = drawn \cup {<<ms, rnd>>}
                /\ issued' = Append(issued, id)
                /\ rec' = [rec EXCEPT ![id] = NewFileData(allowed_file(ext).type)]
                /\ files' = Append(files, id)
                /\ plocal' = [plocal EXCEPT ![p] = id]
    /\ stats' = [stats EXCEPT !.total = @ + 1]
    /\ ppc' = [ppc EXCEPT ![p] = "u_put"]
    /\ UNCHANGED xvars
    /\ UNCHANGED <<queue, processing, current_file, lock, wpc, file_data,
                   wout, putOrder, deqOrder, doneOrder>>

\* upload_file after the lock: app_state['queue'].put(file_data)
UploadPut(p) ==
    /\ ppc[p] = "u_put"
    /\ queue' = Append(queue, plocal[p])
    /\ putOrder' = Append(putOrder, plocal[p])
    /\ plocal' = [plocal EXCEPT ![p] = NoId]
    /\ ppc' = [ppc EXCEPT ![p] = "idle"]
    /\ UNCHANGED xvars
    /\ UNCHANGED <<files, rec, processing, current_file, stats, lock, wpc,
                   file_data, wout, drawn, issued, deqOrder, doneOrder>>

\* the body of get_status
StatusResponse ==
    [queued |-> SelectIds(files, {"queued"}),
     processing |-> SelectIds(files, {"processing"}),
     completed |-> SelectIds(files, {"completed", "error"}),
     flag |-> processing,
     stats |-> stats]

\* get_status: one with-block, reads only
GetStatus(p) ==
    /\ ppc[p] = "idle"
    /\ lock = "free"
    /\ StatusResponse.stats = stats
    /\ UNCHANGED vars

\* A mutation of KeepOnClear: queued entries survive the clear as well.
KeepOnClear_AlsoQueued(status) == status \in {"processing", "queued"}

\* clear_queue: "[f for f in app_state['files'] if f['status'] == 'processing']"
KeepOnClear(status) == status = "processing"

\* A mutation of StatsAfterClear: total starts again from 0.
StatsAfterClear_ZeroTotal(f) == ZeroStats

\* clear_queue: the stats dict built at the end
StatsAfterClear(f) == [ZeroStats EXCEPT !.total = Len(f)]

\* clear_queue enters its with-block and filters the list
ClearBegin(p) ==
    /\ ppc[p] = "idle"
    /\ lock = "free"
    /\ lock' = p
    /\ files' = SelectSeq(files, LAMBDA i : KeepOnClear(rec[i].status))
    /\ rec' = Collect(rec, files', queue, file_data, current_file, plocal)
    /\ ppc' = [ppc EXCEPT ![p] = "c_drain"]
    /\ UNCHANGED xvars
    /\ UNCHANGED <<queue, processing, current_file, stats, wpc, file_data,
                   wout, plocal, qvars>>

\* clear_queue: one round of "while not queue.empty(): queue.get_nowait()"
ClearDrainOne(p) ==
    /\ ppc[p] = "c_drain"
    /\ queue # <<>>
    /\ queue' = Tail(queue)
    /\ rec' = Collect(rec, files, queue', file_data, current_file, plocal)
    /\ UNCHANGED xvars
    /\ UNCHANGED <<files, processing, current_file, stats, lock, wpc,
                   file_data, wout, ppc, plocal, qvars>>

\* clear_queue: the queue is seen empty, stats are rebuilt, the lock released
ClearFinish(p) ==
    /\ ppc[p] = "c_drain"
    /\ queue = <<>>
    /\ stats' = StatsAfterClear(files)
    /\ lock' = "free"
    /\ ppc' = [ppc EXCEPT ![p] = "idle"]
    /\ UNCHANGED xvars
    /\ UNCHANGED <<files, rec, queue, processing, current_file, wpc,
                   file_data, wout, plocal, qvars>>

ProducerStep ==
    \E p \in Producers :
        \/ UploadRejected(p) \/ UploadAppend(p) \/ UploadPut(p)
        \/ GetStatus(p)
        \/ ClearBegin(p) \/ ClearDrainOne(p) \/ ClearFinish(p)

Next == WorkerStep \/ ProducerStep

\* app2.py starts; nothing else is in use
SpecInit == Init /\ BatchInit /\ RetryOff /\ ParseOff /\ PipeOff /\ LaterOff

Spec == SpecInit /\ [][Next]_vars

\* Scheduling: every thread that can take a step eventually takes one; the
\* worker, which waits for state_lock again and again, is not starved of it;
\* a request thread finishes the handler it is in.  Nothing is assumed about
\* the inference backend: an attempt may fail every time.
FairSpec ==
    /\ Spec
    /\ WF_vars(WorkerStep)
    /\ SF_vars(WorkerAcquire)
    /\ \A p \in Producers :
          WF_vars(UploadPut(p) \/ ClearDrainOne(p) \/ ClearFinish(p))

\* The runs in which clear_queue is never called
NextNoClear ==
    \/ WorkerStep
    \/ \E p \in Producers :
          \/ UploadRejected(p) \/ UploadAppend(p) \/ UploadPut(p)
          \/ GetStatus(p)

SpecNoClear == SpecInit /\ [][NextNoClear]_vars

TypeOK ==
    /\ Range(files) \subseteq IdSpace
    /\ Range(queue) \subseteq IdSpace
    /\ lock \in {"free", Worker} \cup Producers
    /\ processing \in BOOLEAN

\* ======================================================================
\*                              Properties
\* ======================================================================
Listed == Range(files)
Terminal == {"completed", "error"}
IsSet(x) == x # None
ResultSet(r) == r.result # NoDatos
Pos(sq, x) == CHOOSE k \in 1..Len(sq) : sq[k] = x
NoDuplicates(sq) == \A a, b \in 1..Len(sq) : sq[a] = sq[b] => a = b

\* ---------------------------------------------------------------- C1
AllowedMove(from, to) ==
    \/ to = from
    \/ from = "absent" /\ to = "queued"
    \/ from = "queued" /\ to = "processing"
    \/ from = "processing" /\ to \in Terminal
    \/ from \in {"queued"} \cup Terminal /\ to = "absent"

\* C1: the status of every item dict only moves queued -> processing ->
\* (completed | error); upload_file creates it 'queued'; a dict that is
\* 'completed' or 'error' keeps that status until it is dropped by a clear.
C1_StatusMoves ==
    [][\A i \in IdSpace : AllowedMove(rec[i].status, rec'[i].status)]_vars

\* both terminal statuses have been reached, one item each
C1_Witness ==
    \E i, j \in Listed : rec[i].status = "completed" /\ rec[j].status = "error"

\* ---------------------------------------------------------------- C2
\* C2: for every listed item: queued/processing => result and error unset;
\* completed => result set, error unset; error => error set, result unset.
C2_ResultErrorInvariant ==
    \A i \in Listed :
        /\ rec[i].status \in {"queued", "processing", "completed", "error"}
        /\ rec[i].status \in {"queued", "processing"}
              => ~ResultSet(rec[i]) /\ ~IsSet(rec[i].error)
        /\ rec[i].status = "completed"
              => ResultSet(rec[i]) /\ ~IsSet(rec[i].error)
        /\ rec[i].status = "error"
              => IsSet(rec[i].error) /\ ~ResultSet(rec[i])

\* a completed item (result set) next to a failed one (error set)
C2_Witness ==
    \E i, j \in Listed :
        /\ rec[i].status = "completed" /\ ResultSet(rec[i])
        /\ rec[j].status = "error" /\ IsSet(rec[j].error)

\* ---------------------------------------------------------------- C3
WorkerBetweenItems == wpc \in {"get", "backoff", "end_lock", "end_set"}

InProcessFile ==
    wpc \in {"pf_call", "pf_retry", "ok_lock", "ok_set", "err_lock", "err_set"}

\* C4: at most one listed item is 'processing', and it is the item the
\* worker is inside process_file with: the worker is never about to dequeue
\* while an item is 'processing'.
C4_OneProcessing ==
    /\ Cardinality({i \in Listed : rec[i].status = "processing"}) <= 1
    /\ \A i \in Listed :
          rec[i].status = "processing" => InProcessFile /\ file_data = i

\* an item is 'processing' while a clear holds the lock and another upload
\* is between its append and its put
C4_Witness ==
    /\ \E i \in Listed : rec[i].status = "processing"
    /\ \E p, q \in Producers : ppc[p] = "c_drain" /\ ppc[q] = "u_put"

\* ---------------------------------------------------------------- C5
InInferenceCall == wpc \in {"pf_call", "pf_retry"}

\* C5 as stated: under fair scheduling every listed item is eventually
\* 'completed' or 'error', unless a clear removes it.
C5_EventuallyTerminal ==
    \A i \in IdSpace :
        (i \in Listed) ~> (i \notin Listed \/ rec[i].status \in Terminal)

\* C5 as amended: the same, for the runs in which no call of the analyzer
\* goes on retrying forever.
C5_TerminalUnlessRetryForever ==
    ([]<>(~InInferenceCall)) => C5_EventuallyTerminal

\* an item has reached a terminal status while the next one is being retried
C5_Witness ==
    /\ wpc = "pf_retry"
    /\ \E i \in Listed : rec[i].status \in Terminal
    /\ \E j \in Listed : rec[j].status = "processing"

ProcessingCount == Cardinality({i \in Listed : rec[i].status = "processing"})

StatsOfOne == [total |-> 1, procesados |-> 0, exitosos |-> 0,
               fallidos |-> 0, no_anuncios |-> 0]

\* C7: a clear_queue called while exactly one item is 'processing' leaves
\* the list holding exactly that item, the queue empty, and the stats at
\* total = 1 with every other counter 0.
C7_ClearKeepsProcessing ==
    [][\A p \in Producers :
          /\ (ppc[p] = "idle" /\ ppc'[p] = "c_drain" /\ ProcessingCount = 1)
                => /\ Len(files') = 1
                   /\ files'[1] \in Listed
                   /\ rec[files'[1]].status = "processing"
                   /\ rec'[files'[1]] = rec[files'[1]]
          /\ (ppc[p] = "c_drain" /\ ppc'[p] = "idle" /\ Len(files) = 1)
                => /\ files' = files
                   /\ rec'[files[1]].status = "processing"
                   /\ queue' = <<>>
                   /\ stats' = StatsOfOne]_vars

\* after such a clear: two items were uploaded, the processing one is left
C7_Witness ==
    /\ Len(issued) >= 2
    /\ Len(files) = 1
    /\ rec[files[1]].status = "processing"
    /\ queue = <<>>
    /\ stats = StatsOfOne

\* ---------------------------------------------------------------- C8
HoldsItem ==
    wpc \in {"flag_lock", "flag_set", "pf_lock", "pf_mark", "pf_call",
             "pf_retry", "ok_lock", "ok_set", "err_lock", "err_set"}

\* C8: from queue.get until its terminal status is recorded, the item the
\* worker holds stays in app_state['files'], whatever clear_queue does.
C8_InFlightKept ==
    [][(HoldsItem /\ file_data \in Listed) => file_data \in Range(files')]_vars

\* ---------------------------------------------------------------- C9
Count(x, sq) == Cardinality({k \in 1..Len(sq) : sq[k] = x})

C10_NoLockDuringInference ==
    InInferenceCall =>
        \/ lock = "free"
        \/ \E p \in Producers : lock = p /\ ppc[p] = "c_drain"

\* the worker is in the call while a request thread holds the lock
C10_Witness == InInferenceCall /\ lock \in Producers

\* ======================================================================
\* Part 2: BatchMultiFormatProcessor (src/batch_image_processor.py).
\* Two threads may call process_queue; another calls add_file, pause, resume,
\* get_stats and clear_queue on the same object.  Only the with-blocks take self.lock.
\* ======================================================================
\* what a batch step leaves alone
batchrest == <<appvars, retryvars, parsevars, pipevars, latervars>>

\* process_queue: if self.is_processing: return
BatchStart(r) ==
    /\ bpc[r] = "idle"
    /\ bpc' = [bpc EXCEPT ![r] = IF is_processing THEN "idle" ELSE "b_empty"]
    /\ bacc' = Access(r, "is_processing")
    /\ UNCHANGED <<bqueue, bstats, results, is_processing, is_paused, block,
                   file_info, cpc>>
    /\ UNCHANGED batchrest

\* process_queue: if self.queue.empty(): return
BatchCheckEmpty(r) ==
    /\ bpc[r] = "b_empty"
    /\ bpc' = [bpc EXCEPT ![r] = IF bqueue = <<>> THEN "idle" ELSE "b_set"]
    /\ UNCHANGED <<bqueue, bstats, results, is_processing, is_paused, block,
                   file_info, cpc, bacc>>
    /\ UNCHANGED batchrest

\* process_queue: self.is_processing = True; config update; banner
BatchSetProcessing(r) ==
    /\ bpc[r] = "b_set"
    /\ is_processing' = TRUE
    /\ bacc' = Access(r, "is_processing")
    /\ bpc' = [bpc EXCEPT ![r] = "b_loop"]
    /\ UNCHANGED <<bqueue, bstats, results, is_paused, block, file_info, cpc>>
    /\ UNCHANGED batchrest

\* while not self.queue.empty():
BatchLoopTest(r) ==
    /\ bpc[r] = "b_loop"
    /\ bpc' = [bpc EXCEPT ![r] = IF bqueue = <<>> THEN "b_finish" ELSE "b_pause"]
    /\ UNCHANGED <<bqueue, bstats, results, is_processing, is_paused, block,
                   file_info, cpc, bacc>>
    /\ UNCHANGED batchrest

\* while self.is_paused: time.sleep(0.5)
PauseTest(paused) == IF paused THEN "b_pause" ELSE "b_get"

BatchPauseTest(r) ==
    /\ bpc[r] = "b_pause"
    /\ bpc' = [bpc EXCEPT ![r] = PauseTest(is_paused)]
    /\ bacc' = Access(r, "is_paused")
    /\ UNCHANGED <<bqueue, bstats, results, is_processing, is_paused, block,
                   file_info, cpc>>
    /\ UNCHANGED batchrest

\* file_info = self.queue.get()   (blocks while the queue is empty)
BatchGet(r) ==
    /\ bpc[r] = "b_get"
    /\ bqueue # <<>>
    /\ file_info' = [file_info EXCEPT ![r] = Head(bqueue)]
    /\ bqueue' = Tail(bqueue)
    /\ bpc' = [bpc EXCEPT ![r] = "b_lock"]
    /\ UNCHANGED <<bstats, results, is_processing, is_paused, block, cpc, bacc>>
    /\ UNCHANGED batchrest

\* with self.lock:   (entering)
BatchAcquire(r) ==
    /\ bpc[r] = "b_lock"
    /\ block = "free"
    /\ block' = r
    /\ bpc' = [bpc EXCEPT ![r] = "b_count"]
    /\ UNCHANGED <<bqueue, bstats, results, is_processing, is_paused,
                   file_info, cpc, bacc>>
    /\ UNCHANGED batchrest

\* A mutation of CountDequeued: the dequeued item is not counted as processed.
CountDequeued_NoProcesados(st) == [st EXCEPT !.en_cola = @ - 1]

\* self.stats['en_cola'] -= 1; self.stats['procesados'] += 1
CountDequeued(st) == [st EXCEPT !.en_cola = @ - 1, !.procesados = @ + 1]

\* with self.lock: en_cola -= 1; procesados += 1
BatchCount(r) ==
    /\ bpc[r] = "b_count"
    /\ bstats' = CountDequeued(bstats)
    /\ bacc' = Access(r, "stats")
    /\ block' = "free"
    /\ bpc' = [bpc EXCEPT ![r] = "b_progress"]
    /\ UNCHANGED <<bqueue, results, is_processing, is_paused, file_info, cpc>>
    /\ UNCHANGED batchrest

\* self._print_progress(self.stats['procesados'], self.stats['total'], ...)
BatchPrintProgress(r) ==
    /\ bpc[r] = "b_progress"
    /\ bacc' = Access(r, "stats")
    /\ bpc' = [bpc EXCEPT ![r] = "b_call"]
    /\ UNCHANGED <<bqueue, bstats, results, is_processing, is_paused, block,
                   file_info, cpc>>
    /\ UNCHANGED batchrest

\* resultado of _process_single_file for one outcome of the try-body
Resultado(o) ==
    IF o.raised
    THEN [exito |-> FALSE, es_anuncio |-> FALSE, error |-> o.msg]
    ELSE [exito |-> TRUE, es_anuncio |-> (o.datos.es = "True"), error |-> None]

\* the counter _process_single_file increments, outside any with-block
BatchStatsOutcome(st, o) ==
    IF o.raised THEN [st EXCEPT !.fallidos = @ + 1]
    ELSE IF o.datos.es = "True" THEN [st EXCEPT !.exitosos = @ + 1]
    ELSE [st EXCEPT !.no_anuncios = @ + 1]

\* resultado = self._process_single_file(file_info)
\* self.results.append(resultado); pause between files
BatchProcessSingle(r) ==
    /\ bpc[r] = "b_call"
    /\ \E o \in CallOutcomes(file_info[r]) :
          /\ bstats' = BatchStatsOutcome(bstats, o)
          /\ results' = Append(results, Resultado(o))
    /\ bacc' = Access(r, "stats")
    /\ file_info' = [file_info EXCEPT ![r] = NoInfo]
    /\ bpc' = [bpc EXCEPT ![r] = "b_loop"]
    /\ UNCHANGED <<bqueue, is_processing, is_paused, block, cpc>>
    /\ UNCHANGED batchrest

\* summary, _save_results, self.is_processing = False
BatchFinish(r) ==
    /\ bpc[r] = "b_finish"
    /\ is_processing' = FALSE
    /\ bacc' = Access(r, "is_processing")
    /\ bpc' = [bpc EXCEPT ![r] = "idle"]
    /\ UNCHANGED <<bqueue, bstats, results, is_paused, block, file_info, cpc>>
    /\ UNCHANGED batchrest

RunnerStep(r) ==
        \/ BatchStart(r)
        \/ BatchCheckEmpty(r)
        \/ BatchSetProcessing(r)
        \/ BatchLoopTest(r)
        \/ BatchPauseTest(r)
        \/ BatchGet(r)
        \/ BatchAcquire(r)
        \/ BatchCount(r)
        \/ BatchPrintProgress(r)
        \/ BatchProcessSingle(r)
        \/ BatchFinish(r)

\* add_file on a missing path or an unsupported extension: returns False
AddFileRejected ==
    /\ cpc = "idle"
    /\ UNCHANGED vars

\* the process_queue threads that hold a dequeued item
InHand == {r \in Runners : file_info[r] # NoInfo}

\* add_file: with self.lock:   (entering), file_type detected
AddFileAcquire(type) ==
    /\ cpc = "idle"
    /\ Len(results) + Len(bqueue) + Cardinality(InHand) < MaxBatch
    /\ block = "free"
    /\ block' = Caller
    /\ cpc' = type
    /\ UNCHANGED <<bqueue, bstats, results, is_processing, is_paused, bpc,
                   file_info, bacc>>
    /\ UNCHANGED batchrest

\* add_file: queue.put, total / en_cola / imagenes|textos += 1
AddFilePut ==
    /\ cpc \in FileTypes
    /\ bqueue' = Append(bqueue, cpc)
    /\ bstats' = IF cpc = "image"
                 THEN [bstats EXCEPT !.total = @ + 1, !.en_cola = @ + 1,
                                     !.imagenes = @ + 1]
                 ELSE [bstats EXCEPT !.total = @ + 1, !.en_cola = @ + 1,
                                     !.textos = @ + 1]
    /\ bacc' = Access(Caller, "stats")
    /\ block' = "free"
    /\ cpc' = "idle"
    /\ UNCHANGED <<results, is_processing, is_paused, bpc, file_info>>
    /\ UNCHANGED batchrest

\* pause(): self.is_paused = True
Pause ==
    /\ cpc = "idle"
    /\ is_paused' = TRUE
    /\ bacc' = Access(Caller, "is_paused")
    /\ UNCHANGED <<bqueue, bstats, results, is_processing, block, bpc,
                   file_info, cpc>>
    /\ UNCHANGED batchrest

\* resume(): self.is_paused = False
Resume ==
    /\ cpc = "idle"
    /\ is_paused' = FALSE
    /\ bacc' = Access(Caller, "is_paused")
    /\ UNCHANGED <<bqueue, bstats, results, is_processing, block, bpc,
                   file_info, cpc>>
    /\ UNCHANGED batchrest

\* get_stats(): return self.stats.copy()
GetStats ==
    /\ cpc = "idle"
    /\ bacc' = Access(Caller, "stats")
    /\ UNCHANGED <<bqueue, bstats, results, is_processing, is_paused, block,
                   bpc, file_info, cpc>>
    /\ UNCHANGED batchrest

\* clear_queue: with self.lock:   (entering)
BClearAcquire ==
    /\ cpc = "idle"
    /\ block = "free"
    /\ block' = Caller
    /\ cpc' = "k_test"
    /\ UNCHANGED <<bqueue, bstats, results, is_processing, is_paused, bpc,
                   file_info, bacc>>
    /\ UNCHANGED batchrest

\* clear_queue: while not self.queue.empty():
BClearTest ==
    /\ cpc = "k_test"
    /\ cpc' = IF bqueue = <<>> THEN "k_reset" ELSE "k_get"
    /\ UNCHANGED <<bqueue, bstats, results, is_processing, is_paused, block,
                   bpc, file_info, bacc>>
    /\ UNCHANGED batchrest

\* clear_queue: self.queue.get()   (blocks while the queue is empty)
BClearGet ==
    /\ cpc = "k_get"
    /\ bqueue # <<>>
    /\ bqueue' = Tail(bqueue)
    /\ cpc' = "k_test"
    /\ UNCHANGED <<bstats, results, is_processing, is_paused, block, bpc,
                   file_info, bacc>>
    /\ UNCHANGED batchrest

\* clear_queue: self.stats = {all zero}; the with-block ends
BClearReset ==
    /\ cpc = "k_reset"
    /\ bstats' = ZeroBatchStats
    /\ bacc' = Access(Caller, "stats")
    /\ block' = "free"
    /\ cpc' = "idle"
    /\ UNCHANGED <<bqueue, results, is_processing, is_paused, bpc, file_info>>
    /\ UNCHANGED batchrest

\* add_file
AddFileStep ==
    \/ AddFileRejected
    \/ \E type \in FileTypes : AddFileAcquire(type)
    \/ AddFilePut

\* clear_queue
ClearQueueStep ==
    \/ BClearAcquire
    \/ BClearTest
    \/ BClearGet
    \/ BClearReset

CallerStep ==
    \/ AddFileStep
    \/ Pause
    \/ Resume
    \/ GetStats

\* one thread in process_queue, one calling add_file, pause, resume, get_stats
BatchNext == RunnerStep("r1") \/ CallerStep

\* two threads in process_queue, one calling add_file and clear_queue
BatchClearNext ==
    \/ \E r \in Runners : RunnerStep(r)
    \/ AddFileStep
    \/ ClearQueueStep

BatchSpecInit == Init /\ BatchInit /\ RetryOff /\ ParseOff /\ PipeOff /\ LaterOff

BatchSpec == BatchSpecInit /\ [][BatchNext]_vars

BatchClearInit == BatchSpecInit

BatchClearSpec == BatchClearInit /\ [][BatchClearNext]_vars

\* every thread that can move does; a thread blocked in queue.get() or on
\* the lock moves once the queue is non-empty / the lock is free for good
FairBatchClearSpec ==
    /\ BatchClearSpec
    /\ \A r \in Runners : WF_vars(RunnerStep(r))
    /\ WF_vars(ClearQueueStep)
    /\ WF_vars(AddFilePut)

BatchTypeOK ==
    /\ bqueue \in Seq(FileTypes)
    /\ is_processing \in BOOLEAN /\ is_paused \in BOOLEAN
    /\ block \in {"free", Caller} \cup Runners
    /\ file_info \in [Runners -> FileTypes \cup {NoInfo}]
    /\ cpc \in FileTypes \cup {"idle", "k_test", "k_get", "k_reset"}
    /\ bstats.en_cola \in Int

\* ---------------------------------------------------------------------
\* C11: every read or write of the shared aggregate state (stats, results,
\* is_paused, is_processing) is made by a thread that holds the lock at
\* that moment.  For BatchMultiFormatProcessor: the latest access was made
\* by the holder of self.lock.
C11_AccessUnderLock == bacc # NoAccess => bacc.holder = bacc.by

\* ---------------------------------------------------------------------
\* C12: while is_paused is True, process_queue dequeues no item: no step
\* taken with the flag set is the loop's queue.get().
C12_NoDequeueWhilePaused ==
    [][is_paused =>
          \A r \in Runners : ~(bpc[r] = "b_get" /\ bpc'[r] = "b_lock")]_vars

\* ---------------------------------------------------------------------
\* C13: the worker loop never ends and never stops polling, so an item put
\* on the queue at any time is eventually dequeued and process_file
\* finishes with it (unless clear_queue takes it off the queue first).
Drained(i) == i \in Range(putOrder) /\ i \notin Range(queue) /\ i \notin Range(deqOrder)

C13_EventuallyProcessed ==
    \A i \in IdSpace :
        (i \in Range(queue)) ~> (i \in Range(doneOrder) \/ Drained(i))

\* C13 as amended: the same, for the runs in which no call of the analyzer
\* goes on retrying forever.
C13_ProcessedUnlessRetryForever ==
    ([]<>(wpc \notin {"pf_call", "pf_retry"})) => C13_EventuallyProcessed

\* the worker timed out on the empty queue after finishing an item, and a
\* new item has been put on the queue in the meantime
C13_Witness ==
    /\ wpc = "backoff"
    /\ doneOrder # <<>>
    /\ queue # <<>>

\* ======================================================================
\* Part 3: the retry loop of OllamaAnalyzer.analyze_image / analyze_text
\* (src/components/ollama_analyzer.py 174-217 and 266-309).
\* ======================================================================
MaxFails == 2                  \* length of the scripted part of the backend
MaxRetries == MaxFails + 1     \* largest finite max_retries
IntentoCap == MaxRetries + 1   \* counters stop counting here

\* What one requests.post can end in:
\*   timeout    requests.exceptions.Timeout
\*   transport  any other requests.exceptions.RequestException
\*   non200     a response whose status_code is not 200
\*   empty      status 200, response.text empty
\*   badjson    status 200, a body response.json() cannot decode
\*   ok         status 200, a JSON body
Outcomes == {"timeout", "transport", "non200", "empty", "badjson", "ok"}

Min(a, b) == IF a < b THEN a ELSE b

\* the outcome of the k-th request of the call
OutcomeAt(k) ==
    IF k <= Len(backend.script) THEN backend.script[k] ELSE backend.tail

\* the exception the try-body raises on this outcome
ErrorOf(o) ==
    CASE o = "timeout"   -> [type |-> "Timeout", msg |-> "Read timed out"]
      [] o = "transport" -> [type |-> "RequestException", msg |-> "Connection refused"]
      [] o = "non200"    -> [type |-> "RequestException", msg |-> "Status code 500"]
      [] o = "empty"     -> [type |-> "ValueError", msg |-> "Respuesta vacia del servidor"]
      [] o = "badjson"   -> [type |-> "JSONDecodeError", msg |-> "Expecting value"]
      [] OTHER           -> NoError

\* A mutation of the try-body: the empty-body test is dropped.
AttemptFails_EmptyReturns(o) == o \notin {"ok", "empty"}

\* the try-body raises unless status is 200, the body is non-empty and
\* response.json() decodes it; every exception it raises is a Timeout, a
\* RequestException or a ValueError, which the except clause catches
AttemptFails(o) == o # "ok"

\* A mutation of the loop test: an unlimited call is treated as max_retries=1.
LoopGoesOn_NoneIsOne(mr, i) == i < (IF mr = Unlimited THEN 1 ELSE mr)

\* while max_retries is None or intento < max_retries
LoopGoesOn(mr, i) == mr = Unlimited \/ i < mr

\* A mutation of the exhaustion test: one attempt too many is allowed.
Exhausted_Late(mr, i) == mr # Unlimited /\ i > mr

\* if max_retries is not None and intento >= max_retries
Exhausted(mr, i) == mr # Unlimited /\ i >= mr

\* raise Exception(f"Maximo de {max_retries} reintentos alcanzado") inside
\* the except block: Python chains the caught exception as __context__
ExhaustionExc(mr, e) ==
    [text |-> <<"Maximo de N reintentos alcanzado">>, n |-> mr, context |-> e]

\* str(exception): the message a caller records
Str(exc) == exc.text

RetryInit ==
    /\ max_retries \in {Unlimited} \cup (0..MaxRetries)
    /\ backend \in [script : UNION {[1..n -> Outcomes] : n \in 0..MaxFails},
                    tail : Outcomes]
    /\ intento = 0
    /\ apc = "loop"
    /\ last_error = NoError
    /\ raised_exc = NoExc
    /\ returned = None
    /\ posts = 0
    /\ sleeps = 0

retryrest == <<appvars, batchvars, parsevars, pipevars, latervars>>

\* while ...: intento += 1   (or the loop ends and the function returns None)
RetryLoopTest ==
    /\ apc = "loop"
    /\ IF LoopGoesOn(max_retries, intento)
       THEN /\ intento' = Min(intento + 1, IntentoCap)
            /\ apc' = "post"
       ELSE /\ intento' = intento
            /\ apc' = "fell"
    /\ UNCHANGED <<max_retries, backend, last_error, raised_exc, returned,
                   posts, sleeps>>
    /\ UNCHANGED retryrest

\* requests.post(...) answers 200 with a JSON body: return response.json()
RetryPostReturns ==
    /\ apc = "post"
    /\ ~AttemptFails(OutcomeAt(Min(posts + 1, IntentoCap)))
    /\ posts' = Min(posts + 1, IntentoCap)
    /\ returned' = "body"
    /\ apc' = "returned"
    /\ UNCHANGED <<max_retries, backend, intento, last_error, raised_exc, sleeps>>
    /\ UNCHANGED retryrest

\* the try-body raises; the except block either raises the exhaustion
\* exception or goes on to time.sleep(retry_delay)
RetryPostFails ==
    /\ apc = "post"
    /\ AttemptFails(OutcomeAt(Min(posts + 1, IntentoCap)))
    /\ posts' = Min(posts + 1, IntentoCap)
    /\ last_error' = ErrorOf(OutcomeAt(Min(posts + 1, IntentoCap)))
    /\ IF Exhausted(max_retries, intento)
       THEN /\ raised_exc' = ExhaustionExc(max_retries, last_error')
            /\ apc' = "raised"
       ELSE /\ raised_exc' = raised_exc
            /\ apc' = "sleep"
    /\ UNCHANGED <<max_retries, backend, intento, returned, sleeps>>
    /\ UNCHANGED retryrest

\* time.sleep(retry_delay), then the loop test again
RetrySleep ==
    /\ apc = "sleep"
    /\ sleeps' = Min(sleeps + 1, IntentoCap)
    /\ apc' = "loop"
    /\ UNCHANGED <<max_retries, backend, intento, last_error, raised_exc,
                   returned, posts>>
    /\ UNCHANGED retryrest

RetryNext ==
    \/ RetryLoopTest
    \/ RetryPostReturns
    \/ RetryPostFails
    \/ RetrySleep

RetrySpecInit == Init /\ BatchInit /\ RetryInit /\ ParseOff /\ PipeOff /\ LaterOff

RetrySpec == RetrySpecInit /\ [][RetryNext]_vars

\* the call goes on whenever it can
FairRetrySpec == RetrySpec /\ WF_vars(RetryNext)

RetryDone == apc \in {"returned", "raised", "fell"}

\* the backend fails exactly the first n requests and then succeeds
FailsThenSucceeds(n) ==
    /\ \A k \in 1..n : AttemptFails(OutcomeAt(k))
    /\ ~AttemptFails(OutcomeAt(n + 1))

AlwaysFails == \A k \in 1..(MaxFails + 1) : AttemptFails(OutcomeAt(k))

\* ---------------------------------------------------------------------
\* C14: against a backend that fails exactly N >= 1 requests and then
\* succeeds, a call with max_retries = N + 1 ends by returning the decoded
\* response after N + 1 requests, and a call with max_retries = N ends by
\* raising the exhaustion exception after N requests.
C14_RetryBound ==
    \A n \in 1..MaxFails :
        (FailsThenSucceeds(n) /\ RetryDone) =>
            /\ max_retries = n + 1 =>
                  apc = "returned" /\ returned = "body" /\ posts = n + 1
            /\ max_retries = n =>
                  /\ apc = "raised" /\ posts = n
                  /\ raised_exc = ExhaustionExc(n, ErrorOf(OutcomeAt(n)))

\* two failures, then the third and last attempt allowed returned
C14_Witness ==
    /\ FailsThenSucceeds(2)
    /\ max_retries = 3
    /\ apc = "returned"
    /\ posts = 3

\* ---------------------------------------------------------------------
\* C15: when a finite max_retries is exhausted, the message of the raised
\* exception (what process_file / _process_single_file record as the
\* item's error, str(e)) names the error of the final failed attempt.
C15_ExhaustionNamesCause ==
    apc = "raised" =>
        \E k \in 1..Len(Str(raised_exc)) : Str(raised_exc)[k] = last_error.msg

\* ---------------------------------------------------------------------
\* C16: with max_retries = None the call never raises and never falls out
\* of the loop; every failed attempt is followed by the wait and the wait
\* by the next attempt; it returns only from an attempt that succeeded,
\* it does return if some attempt succeeds, and against a backend whose
\* requests all fail it goes on sending requests forever.
NeverSucceeds == AlwaysFails /\ AttemptFails(backend.tail)

C16_UnlimitedRetries ==
    /\ [](max_retries = Unlimited => apc \notin {"raised", "fell"})
    /\ [][(max_retries = Unlimited /\ apc = "post"
             /\ AttemptFails(OutcomeAt(Min(posts + 1, IntentoCap))))
            => apc' = "sleep"]_vars
    /\ [][(max_retries = Unlimited /\ apc = "sleep") => apc' = "loop"]_vars
    /\ [][(max_retries = Unlimited /\ apc = "loop") => apc' = "post"]_vars
    /\ [](max_retries = Unlimited /\ apc = "returned"
             => ~AttemptFails(OutcomeAt(posts)))
    /\ (max_retries = Unlimited /\ NeverSucceeds) => []<>(apc = "post")
    /\ (max_retries = Unlimited /\ ~NeverSucceeds) => <>(apc = "returned")

\* an unlimited call is waiting after more failures than any finite
\* max_retries of the model allows
C16_Witness ==
    /\ max_retries = Unlimited
    /\ apc = "sleep"
    /\ posts = IntentoCap
    /\ sleeps = MaxRetries

\* ---------------------------------------------------------------------
\* C17: a transport error or timeout, a non-200 status and a 200 with an
\* empty body each count as one failed attempt: the request consumed one
\* attempt and is followed by the wait or by the exhaustion exception,
\* never by a return; the call returns only from a request answered 200
\* with a non-empty body.
C17_FailedAttempts ==
    /\ [][(apc = "post" /\ OutcomeAt(Min(posts + 1, IntentoCap))
                             \in {"timeout", "transport", "non200", "empty"})
            => /\ apc' \in {"sleep", "raised"}
               /\ returned' = None
               /\ intento' = intento
               /\ posts' = Min(posts + 1, IntentoCap)]_vars
    /\ [](apc = "post" => intento = Min(posts + 1, IntentoCap))
    /\ [](apc = "returned" => OutcomeAt(posts) \in {"ok", "badjson"})

\* the call is waiting after a request that was answered 200 with an
\* empty body
C17_Witness ==
    /\ apc = "sleep"
    /\ posts = 1
    /\ OutcomeAt(1) = "empty"
    /\ last_error = ErrorOf("empty")

\* ======================================================================
\* Part 4: OllamaAnalyzer.parse_json_response
\* (src/components/ollama_analyzer.py 311-341).
\* A text is a sequence of tokens:
\*   "{"  "}"   the braces
\*   "k"        a member key with its colon, "key":
\*   "n"        a scalar JSON literal
\*   "w"        a word of prose, not JSON
\* The JSON texts over these tokens are   value ::= n | {} | { k value }
\* ======================================================================
MaxLen == 5        \* longest text

Tokens == {"{", "}", "k", "n", "w"}

Texts == UNION {[1..n -> Tokens] : n \in 0..MaxLen}

NoParse == [ok |-> FALSE, val |-> <<"error">>, next |-> 0]

\* the JSON decoder reading one value that starts at t[i]
RECURSIVE ParseValue(_, _)
ParseValue(t, i) ==
    IF i > Len(t) THEN NoParse
    ELSE IF t[i] = "n" THEN [ok |-> TRUE, val |-> <<"scalar">>, next |-> i + 1]
    ELSE IF t[i] # "{" \/ i + 1 > Len(t) THEN NoParse
    ELSE IF t[i + 1] = "}" THEN [ok |-> TRUE, val |-> <<"dict">>, next |-> i + 2]
    ELSE IF t[i + 1] # "k" THEN NoParse
    ELSE LET m == ParseValue(t, i + 2) IN
         IF m.ok /\ m.next <= Len(t) /\ t[m.next] = "}"
         THEN [ok |-> TRUE, val |-> <<"dict", m.val>>, next |-> m.next + 1]
         ELSE NoParse

\* json.loads(t): the value, or JSONDecodeError (ok = FALSE)
json_loads(t) ==
    LET r == ParseValue(t, 1) IN
    IF r.ok /\ r.next = Len(t) + 1 THEN [ok |-> TRUE, val |-> r.val]
                                   ELSE [ok |-> FALSE, val |-> <<"error">>]

\* The regex \{[^{}]*(?:\{[^{}]*\}[^{}]*)*\} tried at an opening brace:
\* reading on from t[j] at brace depth 1 or 2, the index of the closing
\* brace of the match, or 0 when the pattern does not match there.
RECURSIVE MatchEnd(_, _, _)
MatchEnd(t, j, depth) ==
    IF j > Len(t) THEN 0
    ELSE IF t[j] \notin {"{", "}"} THEN MatchEnd(t, j + 1, depth)
    ELSE IF depth = 1 THEN (IF t[j] = "}" THEN j ELSE MatchEnd(t, j + 1, 2))
    ELSE IF t[j] = "}" THEN MatchEnd(t, j + 1, 1)
    ELSE 0

\* A mutation of re.findall: the scan resumes one token after the start of
\* a match instead of after its end.
RECURSIVE FindAll_Overlapping(_, _)
FindAll_Overlapping(t, i) ==
    IF i > Len(t) THEN <<>>
    ELSE IF t[i] = "{" /\ MatchEnd(t, i + 1, 1) > 0
         THEN <<SubSeq(t, i, MatchEnd(t, i + 1, 1))>> \o FindAll_Overlapping(t, i + 1)
         ELSE FindAll_Overlapping(t, i + 1)

\* re.findall(json_pattern, content, re.DOTALL) scanning from t[i]: the
\* non-overlapping matches, left to right
RECURSIVE FindAll(_, _)
FindAll(t, i) ==
    IF i > Len(t) THEN <<>>
    ELSE IF t[i] = "{" /\ MatchEnd(t, i + 1, 1) > 0
         THEN <<SubSeq(t, i, MatchEnd(t, i + 1, 1))>>
                  \o FindAll(t, MatchEnd(t, i + 1, 1) + 1)
         ELSE FindAll(t, i + 1)

Value(v) == [kind |-> "value", val |-> v, original |-> <<>>]

\* {"error": "No se pudo parsear ...", "contenido_original": content}
Sentinel(c) == [kind |-> "sentinel", val |-> <<"error">>, original |-> c]

\* for match in matches: try: return json.loads(match) / except: continue
RECURSIVE FirstLoaded(_, _, _)
FirstLoaded(matches, k, c) ==
    IF k > Len(matches) THEN Sentinel(c)
    ELSE IF json_loads(matches[k]).ok THEN Value(json_loads(matches[k]).val)
    ELSE FirstLoaded(matches, k + 1, c)

parse_json_response(c) ==
    IF json_loads(c).ok THEN Value(json_loads(c).val)
    ELSE FirstLoaded(FindAll(c, 1), 1, c)

ParseInit ==
    /\ content \in Texts
    /\ parsed = NoParsed
    /\ jpc = "start"

parserest == <<appvars, batchvars, retryvars, pipevars, latervars>>

\* the call runs and returns
ParseCall ==
    /\ jpc = "start"
    /\ parsed' = parse_json_response(content)
    /\ jpc' = "done"
    /\ UNCHANGED content
    /\ UNCHANGED parserest

ParseNext == ParseCall

ParseSpecInit == Init /\ BatchInit /\ RetryOff /\ ParseInit /\ PipeOff /\ LaterOff

ParseSpec == ParseSpecInit /\ [][ParseNext]_vars

\* ---------------------------------------------------------------------
\* C18: parse_json_response always returns (it never raises): the value of
\* the whole text if the whole text is JSON; otherwise the value of the
\* leftmost candidate of the brace sweep that is JSON; otherwise the
\* sentinel with the error marker and the text unchanged.  A candidate is
\* a substring from an opening brace to the brace that closes it, with at
\* most one level of braces inside; the sweep goes left to right and takes
\* no candidate that starts inside one it has already taken.
Depth(t, i, k) ==
    Cardinality({x \in i..k : t[x] = "{"}) - Cardinality({x \in i..k : t[x] = "}"})

IsCandidate(t, i, j) ==
    /\ i < j /\ t[i] = "{" /\ t[j] = "}"
    /\ Depth(t, i, j) = 0
    /\ \A k \in i..(j - 1) : Depth(t, i, k) \in {1, 2}

Candidates(t) ==
    {c \in (1..Len(t)) \X (1..Len(t)) : IsCandidate(t, c[1], c[2])}

Sweep(t) ==
    CHOOSE M \in SUBSET Candidates(t) :
        \A c \in Candidates(t) :
            c \in M <=> ~\E d \in M : d[1] < c[1] /\ c[1] <= d[2]

Loads(t, c) == json_loads(SubSeq(t, c[1], c[2]))

C18_TwoPhaseParse ==
    jpc = "done" =>
        LET loading == {c \in Sweep(content) : Loads(content, c).ok} IN
        /\ parsed.kind \in {"value", "sentinel"}
        /\ json_loads(content).ok => parsed = Value(json_loads(content).val)
        /\ (~json_loads(content).ok /\ loading # {}) =>
              \E c \in loading :
                  /\ \A d \in loading : c[1] <= d[1]
                  /\ parsed = Value(Loads(content, c).val)
        /\ (~json_loads(content).ok /\ loading = {}) =>
              parsed = [kind |-> "sentinel", val |-> <<"error">>,
                        original |-> content]

\* the first candidate of the sweep is not JSON and a later one is, and
\* its value was returned
C18_Witness ==
    /\ jpc = "done"
    /\ parsed.kind = "value"
    /\ ~json_loads(content).ok
    /\ \E c, d \in Sweep(content) :
          c[1] < d[1] /\ ~Loads(content, c).ok /\ Loads(content, d).ok

\* ======================================================================
\* Part 5: JobAnalyzerFirebase.process_job_image / process_job_text
\* (src/main.py 36-173) with analyze_job_image / analyze_job_text
\* (src/components/ollama_analyzer.py 343-408) and FirebaseManager
\* (src/components/firebase_manager.py 107-128, 171-191).
\* ======================================================================

\* values of the es_anuncio_empleo member of the model's JSON: the two
\* booleans, another truthy value, another falsy value (null, 0, ""), or
\* no such member
EsValues == {"true", "false", "truthy", "falsy", "absent"}

\* The answer of the model, as analyze_job_* sees it:
\*   "no_message"  the decoded body has no message.content
\*   "prose"       a content parse_json_response finds no JSON in
\*   "scalar"      a content that is JSON but not an object
\*   a record      a JSON object, by the members it holds
Replies ==
    {[shape |-> sh, es |-> "absent", razon |-> FALSE, job |-> "none"] :
        sh \in {"no_message", "prose", "scalar"}}
    \cup [shape : {"object"}, es : EsValues, razon : BOOLEAN,
          job : {"all", "some", "none"}]

\* analyze_job_image / analyze_job_text once analyze_image / analyze_text
\* returned: parse_json_response(content), handed on as it is
analyze_job(reply) ==
    IF reply.shape \in {"no_message", "prose"}
    THEN [NoDict EXCEPT !.kind = "dict", !.sentinel = TRUE]
    ELSE IF reply.shape = "scalar"
    THEN [NoDict EXCEPT !.kind = "scalar"]
    ELSE [NoDict EXCEPT !.kind = "dict", !.es = reply.es,
                        !.razon = reply.razon, !.job = reply.job]

\* A mutation of Truthy: the test lets every record through.
Truthy_Always(es) == TRUE

\* the truth value of datos.get("es_anuncio_empleo", False)
Truthy(es) == es \in {"true", "truthy"}

\* blob.upload_from_file fails; or it succeeds and blob.make_public fails
StorageOutcomes == {"ok", "upload_failed", "public_failed"}

\* an optional str argument: None, the empty string, or a text
ArgValues == {None, "", "given"}

\* Python truthiness of an optional str argument
Given(x) == x \notin {None, ""}

\* How the pipeline is entered: process_file / _process_single_file call
\* process_job_image(path) or read the file and call process_job_text(text);
\* the analyze route calls process_job(image_path, text).
Entries ==
    {[via |-> "process_file", kind |-> "image", image_path |-> "given",
      text |-> None, read_ok |-> TRUE]}
    \cup {[via |-> "process_file", kind |-> "text", image_path |-> None,
           text |-> "given", read_ok |-> b] : b \in BOOLEAN}
    \cup {[via |-> "process_job", kind |-> None, image_path |-> i,
           text |-> t, read_ok |-> TRUE] : i, t \in ArgValues}

PipeInit ==
    /\ \E e \in Entries :
       \E w \in [upload_to_storage : BOOLEAN,
                 upload_to_firestore : BOOLEAN, convert_ok : BOOLEAN,
                 reply : Replies, storage : StorageOutcomes,
                 firestore_ok : BOOLEAN] :
          call = e @@ w
    /\ qpc = IF call.via = "process_job" THEN "dispatch"
             ELSE IF call.kind = "image" THEN "convert" ELSE "read"
    /\ jdatos = NoDict
    /\ blobs = 0
    /\ docs = {}
    /\ steps = <<>>

piperest == <<appvars, batchvars, retryvars, parsevars, latervars>>

\* A mutation of Dispatch: text alone is refused like no input at all.
Dispatch_ImageOnly(image_path, text) ==
    IF ~Given(image_path) THEN "ValueError" ELSE "image"

\* process_job: which pipeline the arguments select
Dispatch(image_path, text) ==
    IF ~Given(image_path) /\ ~Given(text) THEN "ValueError"
    ELSE IF Given(image_path) /\ ~Given(text) THEN "image"
    ELSE IF Given(text) /\ ~Given(image_path) THEN "text"
    ELSE "image"

\* process_job: the ValueError, or the call of process_job_image / _text
PipeDispatch ==
    /\ qpc = "dispatch"
    /\ LET d == Dispatch(call.image_path, call.text)
       IN  IF d = "ValueError"
           THEN qpc' = "raised" /\ call' = call
           ELSE /\ call' = [call EXCEPT !.kind = d]
                /\ qpc' = IF d = "image" THEN "convert" ELSE "analyze"
    /\ UNCHANGED <<jdatos, blobs, docs, steps>>
    /\ UNCHANGED piperest

\* process_file / _process_single_file, text item: read_text_file(file_path)
PipeRead ==
    /\ qpc = "read"
    /\ steps' = Append(steps, "read_text_file")
    /\ qpc' = IF call.read_ok THEN "analyze" ELSE "raised"
    /\ UNCHANGED <<call, jdatos, blobs, docs>>
    /\ UNCHANGED piperest

\* PASO 1 of process_job_image: image_converter.convert_to_webp
PipeConvert ==
    /\ qpc = "convert"
    /\ steps' = Append(steps, "convert_to_webp")
    /\ qpc' = IF call.convert_ok THEN "analyze" ELSE "raised"
    /\ UNCHANGED <<call, jdatos, blobs, docs>>
    /\ UNCHANGED piperest

\* the inference call process_job_image / process_job_text makes
AnalyzeCall(c) ==
    IF c.kind = "text" THEN "analyze_job_text"
    ELSE IF Given(c.text) THEN "analyze_job_image+additional_text"
    ELSE "analyze_job_image"

\* datos = self.ollama_analyzer.analyze_job_image(...) / analyze_job_text(...)
PipeAnalyze ==
    /\ qpc = "analyze"
    /\ steps' = Append(steps, AnalyzeCall(call))
    /\ jdatos' = analyze_job(call.reply)
    /\ qpc' = "check"
    /\ UNCHANGED <<call, blobs, docs>>
    /\ UNCHANGED piperest

\* A mutation of AfterCheck: the image pipeline goes to Firestore at once.
AfterCheck_SkipsStorage(kind) == "firestore"

\* what follows the test of the discriminant: PASO 3 (Storage) in
\* process_job_image, PASO 2 (Firestore) in process_job_text
AfterCheck(kind) == IF kind = "image" THEN "storage" ELSE "firestore"

\* if not datos.get("es_anuncio_empleo", False): return datos
\* (a datos that is no dict has no .get: AttributeError)
PipeCheck ==
    /\ qpc = "check"
    /\ qpc' = IF jdatos.kind # "dict" THEN "raised"
              ELSE IF ~Truthy(jdatos.es) THEN "returned"
              ELSE AfterCheck(call.kind)
    /\ UNCHANGED <<call, jdatos, blobs, docs, steps>>
    /\ UNCHANGED piperest

\* PASO 3 of process_job_image: upload_image_to_storage, datos['url']
PipeStorage ==
    /\ qpc = "storage"
    /\ IF ~call.upload_to_storage
       THEN /\ qpc' = "firestore"
            /\ UNCHANGED <<jdatos, blobs, steps>>
       ELSE /\ steps' = Append(steps, "upload_image_to_storage")
            /\ blobs' = IF call.storage = "upload_failed" THEN blobs ELSE blobs + 1
            /\ jdatos' = IF call.storage = "ok" THEN [jdatos EXCEPT !.url = TRUE]
                                               ELSE jdatos
            /\ qpc' = IF call.storage = "ok" THEN "firestore" ELSE "raised"
    /\ UNCHANGED <<call, docs>>
    /\ UNCHANGED piperest

\* PASO 4 / PASO 2: upload_to_firestore (doc_ref.set(data)),
\* datos['firestoreDocId']
PipeFirestore ==
    /\ qpc = "firestore"
    /\ IF ~call.upload_to_firestore
       THEN /\ qpc' = "returned"
            /\ UNCHANGED <<jdatos, docs, steps>>
       ELSE /\ steps' = Append(steps, "upload_to_firestore")
            /\ IF call.firestore_ok
               THEN /\ docs' = docs \cup {[url |-> jdatos.url]}
                    /\ jdatos' = [jdatos EXCEPT !.firestoreDocId = TRUE]
                    /\ qpc' = "returned"
               ELSE /\ qpc' = "raised"
                    /\ UNCHANGED <<jdatos, docs>>
    /\ UNCHANGED <<call, blobs>>
    /\ UNCHANGED piperest

PipeNext ==
    \/ PipeDispatch
    \/ PipeRead
    \/ PipeConvert
    \/ PipeAnalyze
    \/ PipeCheck
    \/ PipeStorage
    \/ PipeFirestore

PipeSpecInit == Init /\ BatchInit /\ RetryOff /\ ParseOff /\ PipeInit /\ LaterOff

PipeSpec == PipeSpecInit /\ [][PipeNext]_vars

\* ---------------------------------------------------------------------
\* C19: the object analyze_job_image / analyze_job_text return has a
\* boolean es_anuncio_empleo; if it is false, razon is present and no job
\* field is; if it is true, every job field is present.
C19_DiscriminatedRecord ==
    qpc = "check" =>
        /\ jdatos.kind = "dict"
        /\ jdatos.es \in {"true", "false"}
        /\ jdatos.es = "false" => jdatos.razon /\ jdatos.job = "none"
        /\ jdatos.es = "true" => jdatos.job = "all"

\* ---------------------------------------------------------------------
\* C20: when process_job_image, asked to store and to record, has ended
\* (returned or raised), the uploaded object and the Firestore document
\* exist both or neither.
C20_ObjectAndDocumentTogether ==
    (/\ qpc \in {"returned", "raised"}
     /\ call.kind = "image"
     /\ call.upload_to_storage /\ call.upload_to_firestore)
        => (blobs > 0 <=> docs # {})


\* ======================================================================
\* Part 6.  Persistence failures, statistics and gating (app2.py, main.py)
\* ======================================================================

\* ---------------------------------------------------------------- C21
\* str(e) of what upload_image_to_storage / upload_to_firestore raise
PersistenceErrors == {"storage upload failed", "firestore write failed"}

\* what a 'completed' entry of this type can carry as its result
WholeResults(type) ==
    {Datos("False", "none"), Datos("False", "sentinel"),
     IF type = "image" THEN Datos("True", "url+doc") ELSE Datos("True", "doc")}

C22_FailedPersistenceCountsAsExitoso ==
    [][(wpc = "err_set" /\ wpc' # wpc /\ wout.msg \in PersistenceErrors)
          => /\ stats'.exitosos = stats.exitosos + 1
             /\ file_data \in Listed => rec'[file_data].status = "error"]_vars


\* ======================================================================
\* Part 7.  ImageConverter.convert_to_webp (src/components/image_converter.py)
\*          and its copy convert_to_webp_memory (src/bu/main.py)
\* ======================================================================

\* pixel modes Pillow can open
Modes == {"1", "L", "LA", "P", "PA", "RGB", "RGBA", "CMYK", "YCbCr", "I", "F"}

\* str (a path), bytes, or a BytesIO
Givens == {"path", "bytes", "stream"}

\* "Convertir modo de color si es necesario": the mode after the if/elif
ColorMode(mode) ==
    IF mode \in {"RGBA", "LA", "P"}
    THEN IF mode = "P" THEN "RGBA" ELSE mode
    ELSE IF mode \notin {"RGB", "RGBA"} THEN "RGB" ELSE mode

ConvInit ==
    /\ image_data \in [given : Givens, mode : Modes, valid : BOOLEAN]
    /\ img = NoImg
    /\ kpc = "open"
    /\ encoded = None

convrest == <<appvars, batchvars, retryvars, parsevars, pipevars, firevars>>

\* Image.open(...) (and img.load() for a path)
ConvOpen ==
    /\ kpc = "open"
    /\ IF image_data.valid
       THEN img' = [mode |-> image_data.mode] /\ kpc' = "mode"
       ELSE img' = img /\ kpc' = "raised"
    /\ UNCHANGED <<image_data, encoded>>
    /\ UNCHANGED convrest

\* the if/elif on img.mode, with img.convert(...)
ConvMode ==
    /\ kpc = "mode"
    /\ img' = [img EXCEPT !.mode = ColorMode(img.mode)]
    /\ kpc' = "save"
    /\ UNCHANGED <<image_data, encoded>>
    /\ UNCHANGED convrest

\* img.save(output, format='WEBP', ...)
ConvSave ==
    /\ kpc = "save"
    /\ encoded' = img.mode
    /\ kpc' = "done"
    /\ UNCHANGED <<image_data, img>>
    /\ UNCHANGED convrest

ConvNext == ConvOpen \/ ConvMode \/ ConvSave

ConvSpecInit ==
    Init /\ BatchInit /\ RetryOff /\ ParseOff /\ PipeOff /\ ConvInit /\ FireOff

ConvSpec == ConvSpecInit /\ [][ConvNext]_vars

\* ---------------------------------------------------------------- C23
\* C23: whatever the pixel mode of the input, the image handed to the WebP
\* encoder has mode RGB or RGBA: a palette image (P) has become RGBA, an
\* RGB or RGBA image is handed over as it is, and an image of any other
\* mode has been converted to RGB.
C23_EncoderGetsRgbOrRgba ==
    kpc = "done" =>
        /\ encoded \in {"RGB", "RGBA"}
        /\ image_data.mode = "P" => encoded = "RGBA"
        /\ image_data.mode \in {"RGB", "RGBA"} => encoded = image_data.mode
        /\ image_data.mode \notin {"P", "RGB", "RGBA"} => encoded = "RGB"


\* ======================================================================
\* Part 8.  process_job and the order of the pipeline's steps (src/main.py)
\* ======================================================================

\* the calls made so far, as a set
StepSet == {steps[k] : k \in 1..Len(steps)}

ImageSteps(inference) ==
    {"convert_to_webp", inference, "upload_image_to_storage",
     "upload_to_firestore"}

TextSteps == {"analyze_job_text", "upload_to_firestore"}

\* ---------------------------------------------------------------- C24
\* C24: process_job with neither image_path nor text raises ValueError
\* before any conversion, inference or storage call; with an image only it
\* runs the image pipeline, with text only the text pipeline, with both
\* the image pipeline with the text as additional_text; the calls of one
\* process_job all belong to that one pipeline.
C24_Dispatch ==
    (call.via = "process_job" /\ qpc # "dispatch") =>
        LET im == Given(call.image_path)
            tx == Given(call.text)
        IN  /\ (~im /\ ~tx) => /\ qpc = "raised" /\ call.kind = None
                               /\ steps = <<>> /\ blobs = 0 /\ docs = {}
            /\ (im /\ ~tx) => /\ call.kind = "image"
                              /\ StepSet \subseteq ImageSteps("analyze_job_image")
            /\ (~im /\ tx) => /\ call.kind = "text"
                              /\ StepSet \subseteq TextSteps
            /\ (im /\ tx) => /\ call.kind = "image"
                             /\ StepSet \subseteq
                                  ImageSteps("analyze_job_image+additional_text")
            /\ (im \/ tx) =>
                  /\ qpc \in {"check", "storage", "firestore", "returned"}
                        => Cardinality(StepSet \cap
                              {"analyze_job_image", "analyze_job_text",
                               "analyze_job_image+additional_text"}) = 1
                  /\ Cardinality(StepSet) = Len(steps)

\* process_job was given an image and a text, and the image pipeline ran to
\* its end with the text sent along
C24_Witness ==
    /\ call.via = "process_job"
    /\ Given(call.image_path) /\ Given(call.text)
    /\ qpc = "returned"
    /\ steps = <<"convert_to_webp", "analyze_job_image+additional_text",
                 "upload_image_to_storage", "upload_to_firestore">>


\* ======================================================================
\* Part 9.  Statistics and the unparsable answer in app2.py
\* ======================================================================

\* ---------------------------------------------------------------- C25
\* stats with one more item counted under the given counter
Counted(st, counter) ==
    [st EXCEPT !.procesados = @ + 1, ![counter] = @ + 1]

\* C25: the step that gives an item a terminal status is taken under
\* state_lock and adds one to procesados and to exactly one of exitosos
\* (completed, job ad), no_anuncios (completed, no job ad) and fallidos
\* (error); in every state procesados = exitosos + no_anuncios + fallidos,
\* clear_queue included.
C25_StatsAddUp ==
    /\ [](stats.procesados
            = stats.exitosos + stats.no_anuncios + stats.fallidos)
    /\ [][\A i \in IdSpace :
            (rec[i].status \notin Terminal /\ rec'[i].status \in Terminal)
               => /\ lock = "worker"
                  /\ stats' = Counted(stats,
                       IF rec'[i].status = "error" THEN "fallidos"
                       ELSE IF rec'[i].result.es = "True" THEN "exitosos"
                       ELSE "no_anuncios")]_vars

\* one item was counted as a job ad and one as failed
C25_Witness ==
    /\ stats.procesados = 2
    /\ stats.exitosos = 1
    /\ stats.fallidos = 1
    /\ \E i, j \in Listed :
          rec[i].status = "completed" /\ rec[j].status = "error"


\* ---------------------------------------------------------------- C26
PersistenceSteps == {"upload_image_to_storage", "upload_to_firestore"}

\* position of a call in steps (0 when it was not made)
StepAt(name) ==
    IF name \in StepSet THEN CHOOSE k \in 1..Len(steps) : steps[k] = name
    ELSE 0

\* the inference call was made before the call at position k
InferenceBefore(k) ==
    \E m \in 1..(k - 1) :
        steps[m] \in {"analyze_job_image", "analyze_job_text",
                      "analyze_job_image+additional_text"}

\* C26: when es_anuncio_empleo of the record is absent or false (the
\* sentinel of an unparsable answer included), process_job_image and
\* process_job_text upload nothing and write nothing and return the record
\* without url and firestoreDocId; an upload or a Firestore write is made
\* only after the inference call, on a dict whose es_anuncio_empleo the
\* test read as true.
C26_PersistenceGated ==
    /\ (qpc \notin {"dispatch", "read", "convert", "analyze", "check"}
        /\ jdatos.kind = "dict"
        /\ jdatos.es \in {"absent", "false", "falsy"})
          => /\ qpc = "returned"
             /\ StepSet \cap PersistenceSteps = {}
             /\ blobs = 0 /\ docs = {}
             /\ ~jdatos.url /\ ~jdatos.firestoreDocId
    /\ (StepSet \cap PersistenceSteps # {} \/ blobs > 0 \/ docs # {}
        \/ jdatos.url \/ jdatos.firestoreDocId
        \/ qpc \in {"storage", "firestore"})
          => /\ jdatos.kind = "dict"
             /\ jdatos.es \in {"true", "truthy"}
             /\ \A n \in PersistenceSteps :
                   n \in StepSet => InferenceBefore(StepAt(n))

\* a sentinel record was returned untouched, nothing stored
C26_Witness ==
    /\ qpc = "returned"
    /\ jdatos.sentinel
    /\ jdatos.es = "absent"
    /\ call.upload_to_storage /\ call.upload_to_firestore
    /\ call.storage = "ok" /\ call.firestore_ok
    /\ blobs = 0 /\ docs = {}


\* ---------------------------------------------------------------- C27
\* the sentinel parse_json_response returns, as process_file sees it
SentinelDatos == Datos("False", "sentinel")

IsPrefix(a, b) == Len(a) <= Len(b) /\ \A k \in 1..Len(a) : a[k] = b[k]

Opt(flag, name) == IF flag THEN <<name>> ELSE <<>>

\* the calls of a whole run on a job ad, in the order the property states
FullRun(c) ==
    IF c.kind = "image"
    THEN <<"convert_to_webp", AnalyzeCall(c)>>
         \o Opt(c.upload_to_storage, "upload_image_to_storage")
         \o Opt(c.upload_to_firestore, "upload_to_firestore")
    ELSE Opt(c.via = "process_file", "read_text_file")
         \o <<"analyze_job_text">>
         \o Opt(c.upload_to_firestore, "upload_to_firestore")

\* C28: an image item goes through conversion, inference and, for a job
\* ad only, storage upload and then Firestore write, and the document
\* written holds the url of the uploaded image; a text item goes through
\* reading, inference and, for a job ad only, the Firestore write, with no
\* conversion and no storage upload.
C28_StepOrder ==
    call.kind # None =>
        /\ IsPrefix(steps, FullRun(call))
        /\ (qpc = "returned" /\ jdatos.es \in {"true", "truthy"})
              => steps = FullRun(call)
        /\ StepSet \cap PersistenceSteps # {} => jdatos.es \in {"true", "truthy"}
        /\ call.kind = "image"
              => ("upload_image_to_storage" \in StepSet /\ docs # {}
                    => \A d \in docs : d.url)
        /\ call.kind = "text"
              => /\ StepSet \cap {"convert_to_webp", "upload_image_to_storage"} = {}
                 /\ blobs = 0
                 /\ \A d \in docs : ~d.url

\* process_file's image item: all four steps made, the document holds the url
C28_Witness ==
    /\ call.via = "process_file"
    /\ call.kind = "image"
    /\ qpc = "returned"
    /\ steps = <<"convert_to_webp", "analyze_job_image",
                 "upload_image_to_storage", "upload_to_firestore">>
    /\ docs = {[url |-> TRUE]}


\* ======================================================================
\* Part 10.  FirebaseManager.upload_to_firestore
\*           (src/components/firebase_manager.py)
\* ======================================================================

MaxUploads == 2    \* calls of upload_to_firestore
MaxClock == 2      \* half seconds that pass

\* a key the dict does not hold
Absent == <<"absent">>

\* values of data['position'] and data['city'], character by character
Positions == {Absent, <<"D", " ", "O">>, <<"d", "_", "o">>}
Cities == {Absent, <<"A">>}

\* the dicts handed to upload_to_firestore
DataSet == [position : Positions, city : Cities, salary : {Absent, <<"1">>}]

\* the doc_id argument: None, or an id of the caller's
DocIdArgs == {<<>>, <<"X">>}

\* str.lower(), on one character
Lower(ch) ==
    CASE ch = "A" -> "a"
      [] ch = "D" -> "d"
      [] ch = "O" -> "o"
      [] OTHER -> ch

\* s.lower().replace(' ', '_')
Normalize(str) ==
    [k \in 1..Len(str) |-> IF Lower(str[k]) = " " THEN "_" ELSE Lower(str[k])]

\* data.get(key, default)
Get(data, key, default) == IF data[key] = Absent THEN default ELSE data[key]

Digit(n) == CASE n = 0 -> "0" [] n = 1 -> "1" [] n = 2 -> "2" [] OTHER -> "9"

\* A mutation of Stamp: the timestamp keeps the fraction of the second.
Stamp_Fraction(t) == <<Digit(t \div 2), ".", Digit(t % 2)>>

\* datetime.now().strftime('%Y%m%d_%H%M%S'): the whole second
Stamp(t) == <<Digit(t \div 2)>>

\* doc_id = f"{position}_{city}_{timestamp}"
DocId(data, t) ==
    Normalize(Get(data, "position", <<"j", "o", "b">>)) \o <<"_">>
    \o Normalize(Get(data, "city", <<"u", "n", "k">>)) \o <<"_">>
    \o Stamp(t)

\* the dict after "data['createdAt'] = ...; data['updatedAt'] = ..."
WithTimestamps(data, t) ==
    [position |-> data.position, city |-> data.city, salary |-> data.salary,
     createdAt |-> t, updatedAt |-> t]

\* doc_ref.set(data): the document is replaced as a whole
SetDoc(coll, id, data) ==
    {d \in coll : d.id # id} \cup {[id |-> id, data |-> data]}

FireInit ==
    /\ fstore = {}
    /\ clock = 0
    /\ uploads = <<>>

firerest == <<appvars, batchvars, retryvars, parsevars, pipevars, convvars>>

\* one call of upload_to_firestore(data, doc_id=...)
FirestoreUpload ==
    /\ Len(uploads) < MaxUploads
    /\ \E data \in DataSet, arg \in DocIdArgs :
          LET doc_id == IF arg = <<>> THEN DocId(data, clock) ELSE arg
              stored == WithTimestamps(data, clock)
          IN  /\ fstore' = SetDoc(fstore, doc_id, stored)
              /\ uploads' = Append(uploads,
                     [data |-> data, arg |-> arg, at |-> clock,
                      id |-> doc_id, stored |-> stored])
    /\ UNCHANGED clock
    /\ UNCHANGED firerest

\* half a second passes
ClockTick ==
    /\ clock < MaxClock
    /\ clock' = clock + 1
    /\ UNCHANGED <<fstore, uploads>>
    /\ UNCHANGED firerest

FireNext == FirestoreUpload \/ ClockTick

FireSpecInit ==
    Init /\ BatchInit /\ RetryOff /\ ParseOff /\ PipeOff /\ ConvOff /\ FireInit

FireSpec == FireSpecInit /\ [][FireNext]_vars

\* ---------------------------------------------------------------- C29
\* the position and city after normalisation, defaults included
SameNormalized(a, b) ==
    /\ Normalize(Get(a, "position", <<"j", "o", "b">>))
          = Normalize(Get(b, "position", <<"j", "o", "b">>))
    /\ Normalize(Get(a, "city", <<"u", "n", "k">>))
          = Normalize(Get(b, "city", <<"u", "n", "k">>))

\* the last call that wrote the document id
LastWriter(id) ==
    CHOOSE k \in 1..Len(uploads) :
        /\ uploads[k].id = id
        /\ \A m \in (k + 1)..Len(uploads) : uploads[m].id # id

\* C29: called without doc_id, upload_to_firestore builds the id from the
\* normalised position, the normalised city and the time to the second, and
\* writes with set(): two records with the same normalised position and
\* city written in the same second get the same id, and the collection
\* then holds the later record only, as a whole.
C29_SameSecondOverwrites ==
    /\ \A j, k \in 1..Len(uploads) :
          (/\ uploads[j].arg = <<>> /\ uploads[k].arg = <<>>
           /\ SameNormalized(uploads[j].data, uploads[k].data)
           /\ uploads[j].at \div 2 = uploads[k].at \div 2)
             => uploads[j].id = uploads[k].id
    /\ \A d \in fstore :
          /\ \E k \in 1..Len(uploads) : uploads[k].id = d.id
          /\ d.data = uploads[LastWriter(d.id)].stored
    /\ \A d, e \in fstore : d.id = e.id => d = e
    /\ \A k \in 1..Len(uploads) : \E d \in fstore : d.id = uploads[k].id

\* two different records, equal after normalisation, written half a second
\* apart within one second: one document is left, the second record
C29_Witness ==
    /\ Len(uploads) = 2
    /\ uploads[1].arg = <<>> /\ uploads[2].arg = <<>>
    /\ uploads[1].data.position = <<"D", " ", "O">>
    /\ uploads[2].data.position = <<"d", "_", "o">>
    /\ uploads[1].data.salary # uploads[2].data.salary
    /\ uploads[1].at = 0 /\ uploads[2].at = 1
    /\ uploads[1].id = uploads[2].id
    /\ fstore = {[id |-> uploads[2].id, data |-> uploads[2].stored]}


\* ======================================================================
\* Part 11.  stats['total'] in app2.py
\* ======================================================================

\* ---------------------------------------------------------------- C30
\* C30: whenever state_lock is free, stats['total'] is the number of
\* entries of app_state['files'], however upload_file, the worker and
\* clear_queue interleave.
C30_TotalIsListLength ==
    lock = "free" => stats.total = Len(files)

\* a clear has removed one of two uploaded items and kept the one in
\* process; total counts the entry that is left
C30_Witness ==
    /\ lock = "free"
    /\ Len(issued) = 2
    /\ Len(files) = 1
    /\ rec[files[1]].status = "processing"
    /\ stats.total = 1
    /\ \A p \in Producers : ppc[p] = "idle"


\* ======================================================================
\* Part 12.  procesados, processing order and the 'processing' flag (app2.py)
\* ======================================================================

\* ---------------------------------------------------------------- C31
\* the listed entries that are 'completed' or 'error'
TerminalListed == {k \in 1..Len(files) : rec[files[k]].status \in Terminal}

\* C31: whenever state_lock is free, stats['procesados'] is the number of
\* listed entries that are 'completed' or 'error', hence at most
\* stats['total'], however upload_file, the worker and clear_queue
\* interleave.
C31_ProcesadosCountsTerminal ==
    lock = "free" =>
        /\ stats.procesados = Cardinality(TerminalListed)
        /\ stats.procesados <= stats.total


\* ---------------------------------------------------------------- C32
\* sq lists its (listed) items in the order of app_state['files']
InListOrder(sq) ==
    \A a, b \in 1..Len(sq) :
        (a < b /\ sq[a] \in Listed /\ sq[b] \in Listed)
            => Pos(files, sq[a]) < Pos(files, sq[b])

\* C32: with concurrent upload_file calls the items are put on the queue,
\* and so dequeued and processed, in the order in which they stand in
\* app_state['files'].
C32_ProcessedInListOrder ==
    /\ InListOrder(putOrder)
    /\ InListOrder(deqOrder)
    /\ InListOrder(doneOrder)


\* ---------------------------------------------------------------- C33
\* an item is pending (on the queue, or appended and about to be put) or
\* the worker holds one
WorkPending ==
    \/ queue # <<>>
    \/ wpc \notin {"get", "backoff"}
    \/ \E p \in Producers : ppc[p] = "u_put"

\* C33: the 'processing' flag does not stay stale: when it is True while
\* nothing is pending and the worker holds no item, the worker sets it
\* back to False (or work arrives).
C33_FlagNotStale ==
    (processing /\ ~WorkPending) ~> (~processing \/ WorkPending)


\* ======================================================================
\* Part 13.  BatchMultiFormatProcessor with clear_queue and two
\*           process_queue threads (src/batch_image_processor.py)
\* ======================================================================

\* ---------------------------------------------------------------- C34
\* the threads that have dequeued an item and not yet counted it
Uncounted == {r \in Runners : bpc[r] = "b_lock"}

\* C34: stats['en_cola'] is never negative and, whenever self.lock is free,
\* it is the number of items pending (in the queue, or just taken from it
\* and about to be counted), however add_file, process_queue and
\* clear_queue interleave.
C34_EnColaIsQueueLength ==
    /\ bstats.en_cola >= 0
    /\ block = "free" => bstats.en_cola = Len(bqueue) + Cardinality(Uncounted)

\* ---------------------------------------------------------------- C35
\* C35: whenever self.lock is free, stats['total'] = stats['en_cola'] +
\* stats['procesados'], after any interleaving of add_file, the dequeues of
\* process_queue and clear_queue.
C35_TotalIsEnColaPlusProcesados ==
    block = "free" => bstats.total = bstats.en_cola + bstats.procesados

\* an item was added and counted as dequeued after a clear_queue had reset
\* the stats: total 0 = en_cola -1 + procesados 1
C35_Witness ==
    /\ block = "free"
    /\ bstats.total = 0
    /\ bstats.en_cola = -1
    /\ bstats.procesados = 1


\* ---------------------------------------------------------------- C36
InClearQueue == cpc \in {"k_test", "k_get", "k_reset"}

InProcessQueue(r) == bpc[r] # "idle"

\* C36: no deadlock: a clear_queue that runs next to process_queue ends
\* and releases self.lock, and a process_queue call ends once the queue is
\* empty; neither waits forever in queue.get() or for the lock.
C36_NoDeadlock ==
    /\ InClearQueue ~> (~InClearQueue /\ block # Caller)
    /\ \A r \in Runners :
          (InProcessQueue(r) /\ bqueue = <<>>) ~> ~InProcessQueue(r)


\* ---------------------------------------------------------------- C37
\* the process_queue threads that are past "self.is_processing = True"
InLoop ==
    {r \in Runners :
        bpc[r] \in {"b_loop", "b_pause", "b_get", "b_lock", "b_count",
                    "b_progress", "b_call", "b_finish"}}

\* C37: at most one process_queue loop is active at a time: a call made
\* while another one runs leaves through "if self.is_processing: return",
\* and while no loop is active (calls that return at once included) no
\* item is dequeued.
C37_OneLoop ==
    /\ Cardinality(InLoop) <= 1
    /\ InLoop = {} => InHand = {}


\* ======================================================================
\* Part 14: how a call of analyze_image / analyze_text ends, and how many
\* requests and waits it makes
\* ======================================================================

\* ---------------------------------------------------------------- C38
\* C38: for every max_retries (None, 0 or positive) and every backend, a
\* call of analyze_image / analyze_text that ends either returns the
\* decoded body of a successful attempt or raises; it never leaves the
\* while loop by its test, which would return None.
C38_NeverReturnsNone ==
    /\ apc # "fell"
    /\ apc = "returned" =>
          returned # None /\ ~AttemptFails(OutcomeAt(posts))

\* ---------------------------------------------------------------- C39
\* the retry loop of the earlier JobAnalyzerFirebase.analyze_image_with_
\* ollama, from iteration i on: the requests sent, the countdown_timer
\* waits made, and how the call ends.  Its except clause catches
\* requests.exceptions.RequestException only; an error of response.json()
\* is not followed further here.
RECURSIVE analyze_image_with_ollama(_, _)
analyze_image_with_ollama(max_intentos, i) ==
    IF i > max_intentos
    THEN [requests |-> 0, waits |-> 0, end |-> "fell"]
    ELSE IF OutcomeAt(i) = "ok"
    THEN [requests |-> 1, waits |-> 0, end |-> "returned"]
    ELSE IF OutcomeAt(i) \notin {"timeout", "transport", "non200"}
    THEN [requests |-> 1, waits |-> 0, end |-> "json_error"]
    ELSE IF i < max_intentos
    THEN LET rest == analyze_image_with_ollama(max_intentos, i + 1)
         IN  [requests |-> rest.requests + 1,
              waits    |-> rest.waits + 1,
              end      |-> rest.end]
    ELSE [requests |-> 1, waits |-> 0, end |-> "raised"]

\* every answer of the backend is a JSON body or raises a RequestException
HttpBackend ==
    \A k \in 1..MaxRetries :
        OutcomeAt(k) \in {"timeout", "transport", "non200", "ok"}

\* the first m requests all fail
FirstFail(m) == \A k \in 1..m : AttemptFails(OutcomeAt(k))

\* C39: the attempts of one call are sequential and bounded.  With a
\* finite max_retries = M >= 1 and a backend whose requests all fail the
\* call sends exactly M requests, waits exactly M - 1 times (never after
\* the last attempt) and raises; if request k <= M is the first to succeed
\* it sends exactly k requests, waits k - 1 times and returns.  Every
\* request after the first follows exactly one wait, and a call that has
\* ended sends nothing more.  analyze_image_with_ollama counts the same.
C39_SequentialBounded ==
    /\ \A m \in 1..MaxRetries :
          (max_retries = m /\ FirstFail(m) /\ RetryDone) =>
              apc = "raised" /\ posts = m /\ sleeps = m - 1
    /\ \A k \in 1..MaxRetries :
          (max_retries \in k..MaxRetries /\ FailsThenSucceeds(k - 1) /\ RetryDone) =>
              apc = "returned" /\ posts = k /\ sleeps = k - 1
    /\ (max_retries # Unlimited /\ apc = "post") =>
          sleeps = posts /\ intento = posts + 1
    /\ (max_retries # Unlimited /\ apc = "sleep") => sleeps = posts - 1
    /\ RetryDone => ~ENABLED RetryNext
    /\ \A m \in 1..MaxRetries :
          (max_retries = m /\ HttpBackend) =>
              LET run == analyze_image_with_ollama(m, 1)
              IN  /\ FirstFail(m) =>
                       run = [requests |-> m, waits |-> m - 1, end |-> "raised"]
                  /\ \A k \in 1..m : FailsThenSucceeds(k - 1) =>
                       run = [requests |-> k, waits |-> k - 1, end |-> "returned"]

\* three requests failed, two waits lay between them, and the call raised
C39_Witness ==
    /\ max_retries = 3
    /\ FirstFail(3)
    /\ apc = "raised"
    /\ posts = 3
    /\ sleeps = 2

====
